---------------------------- MODULE Spec2Model ----------------------------
(***************************************************************************)
(* Model of the Monte Carlo studio simulator of src/modular_simulator.py:  *)
(* the configuration resolver, the loan scheduler, and the monthly trial   *)
(* loop of _core_simulation_and_reports as driven by run_from_cfg.         *)
(*                                                                         *)
(* Conventions.  Python arrays keep their 0-based indices: an array of     *)
(* length n is a function on 0..n-1.  Money is in whole dollars.  IEEE     *)
(* doubles are replaced by integer fixed-point arithmetic: annual rates    *)
(* are in basis points, other rates and multipliers in percent, and each   *)
(* product with a rate is floored.  numpy random draws are inputs chosen   *)
(* from the support of the distribution (cut at the model's bounds).       *)
(***************************************************************************)
EXTENDS Integers, Sequences, FiniteSets, TLC

(***************************************************************************)
(* Bounds of the model (not program constants).                            *)
(***************************************************************************)
\* longest payment array handed to the loan scheduler in SpecLoan
MaxTotalMonths == 14
\* largest value a Poisson draw takes in the model
MaxPoisson == 2
\* largest exponent and largest member count the capacity damping is applied to
MaxBeta == 2
MaxDampMembers == 4

(***************************************************************************)
(* Arithmetic helpers.                                                     *)
(***************************************************************************)
Min(a, b) == IF a <= b THEN a ELSE b
Max(a, b) == IF a >= b THEN a ELSE b

\* the array np.zeros(n): a function on 0..n-1
Zeros(n) == [m \in 0..(n - 1) |-> 0]

\* len() of an array
ArrLen(arr) == Cardinality(DOMAIN arr)

\* Python's round() of the non-negative rational num/den: half to even
RoundHalfEven(num, den) ==
    LET q == num \div den
        r == num % den
    IN  IF 2 * r < den THEN q
        ELSE IF 2 * r > den THEN q + 1
        ELSE IF q % 2 = 0 THEN q ELSE q + 1

\* x * pct / 100, floored
Pct(x, pct) == (x * pct) \div 100

(***************************************************************************)
(* Loan scheduler.  annual_rate is in basis points, so the monthly rate    *)
(* r = annual_rate / 12 of the source is annual_rate / 120000 here.        *)
(***************************************************************************)
\* 12 months times 10000 basis points
BpPerMonthDen == 12 * 10000
\* the fixed-point representation of 1.0
FixedPointOne == 10 * 10000

\* principal * r
MonthlyInterest(principal, annual_rate) == (principal * annual_rate) \div BpPerMonthDen

\* (1 + r) ** n in fixed point
RECURSIVE Growth(_, _)
Growth(annual_rate, n) ==
    IF n <= 0 THEN FixedPointOne
    ELSE LET g == Growth(annual_rate, n - 1)
         IN  g + (g * annual_rate) \div BpPerMonthDen

\* principal * (r / (1 - (1 + r) ** (-n))), written as
\* principal*r + principal*r / ((1 + r) ** n - 1)
Annuity(principal, annual_rate, n) ==
    LET i == MonthlyInterest(principal, annual_rate)
        g == Growth(annual_rate, n)
    IN  i + (i * FixedPointOne) \div (g - FixedPointOne)

\* mutant of build_loan_schedule: the level payment is spread over the whole
\* term instead of the term that remains after the interest-only months
build_loan_schedule_FullTerm(principal, annual_rate, term_years, io_months, total_months) ==
    IF principal <= 0 \/ total_months <= 0 THEN Zeros(Max(total_months, 0))
    ELSE
      LET term_m == term_years * 12
          io_m == Min(Max(0, io_months), term_m)
          io_payment == IF annual_rate # 0 THEN MonthlyInterest(principal, annual_rate) ELSE 0
          io_len == Min(io_m, total_months)
          rem_term == term_m
          amort_payment == IF annual_rate = 0 THEN principal \div rem_term
                           ELSE Annuity(principal, annual_rate, rem_term)
      IN  [m \in 0..(total_months - 1) |->
             IF m < io_len THEN io_payment
             ELSE IF rem_term > 0 /\ io_len < total_months
                     /\ m < Min(total_months, io_len + rem_term)
                  THEN amort_payment
                  ELSE 0]

build_loan_schedule(principal, annual_rate, term_years, io_months, total_months) ==
    IF principal <= 0 \/ total_months <= 0 THEN Zeros(Max(total_months, 0))
    ELSE
      LET term_m == term_years * 12
          io_m == Min(Max(0, io_months), term_m)
          io_payment == IF annual_rate # 0 THEN MonthlyInterest(principal, annual_rate) ELSE 0
          io_len == Min(io_m, total_months)
          rem_term == term_m - io_len
          amort_payment == IF annual_rate = 0 THEN principal \div rem_term
                           ELSE Annuity(principal, annual_rate, rem_term)
      IN  [m \in 0..(total_months - 1) |->
             IF m < io_len THEN io_payment
             ELSE IF rem_term > 0 /\ io_len < total_months
                     /\ m < Min(total_months, io_len + rem_term)
                  THEN amort_payment
                  ELSE 0]

\* mutant of _add_staged_tranche_into_array: no shift by one month, the first
\* payment of the tranche lands in the draw month
add_staged_tranche_NoShift(arr, start_month, principal, annual_rate, amort_years, io_months, total_months) ==
    IF principal <= 0 THEN arr
    ELSE
      LET sched == build_loan_schedule(principal, annual_rate, amort_years, io_months, total_months)
          start == Min(total_months, Max(0, start_month))
          end == Min(total_months, start + ArrLen(sched))
          seg_len == end - start
      IN  [m \in DOMAIN arr |->
             IF seg_len > 0 /\ m >= start /\ m < end
             THEN arr[m] + sched[m - start]
             ELSE arr[m]]

\* _add_staged_tranche_into_array mutates arr in place; the operator returns
\* the array after the call
add_staged_tranche_into_array(arr, start_month, principal, annual_rate, amort_years, io_months, total_months) ==
    IF principal <= 0 THEN arr
    ELSE
      LET sched == build_loan_schedule(principal, annual_rate, amort_years, io_months, total_months)
          start == Min(total_months, Max(0, start_month + 1))
          end == Min(total_months, start + ArrLen(sched))
          seg_len == end - start
      IN  [m \in DOMAIN arr |->
             IF seg_len > 0 /\ m >= start /\ m < end
             THEN arr[m] + sched[m - start]
             ELSE arr[m]]

(***************************************************************************)
(* Configuration resolver.  A configuration is a mapping from names to     *)
(* values; a value is tagged with its Python type: a scalar               *)
(* [t |-> "scalar", v |-> number] or a dict [t |-> "dict", v |-> mapping]. *)
(***************************************************************************)
Scalar(n) == [t |-> "scalar", v |-> n]
Dict(f) == [t |-> "dict", v |-> f]

\* isinstance(x, dict)
isinstance_dict(x) == x.t = "dict"

\* the module constants get_default_cfg() snapshots: a sample of the scalar
\* and of the dict-typed ones (intents in per mille, sessions in hundredths,
\* stations by their capacity)
get_default_cfg ==
    [k \in {"MONTHS", "POOL_BASE_INTENT", "MARKET_POOLS_INFLOW", "STATIONS", "SESSIONS_PER_WEEK"} |->
       CASE k = "MONTHS" -> Scalar(60)
         [] k = "POOL_BASE_INTENT" ->
              Dict([community_studio |-> 100, home_studio |-> 10, no_access |-> 40])
         [] k = "MARKET_POOLS_INFLOW" ->
              Dict([community_studio |-> 4, home_studio |-> 2, no_access |-> 3])
         [] k = "STATIONS" -> Dict([wheels |-> 8, handbuilding |-> 6, glaze |-> 6])
         [] OTHER ->
              Dict([a \in {"Hobbyist", "Committed Artist", "Production Potter", "Seasonal User"} |->
                      CASE a = "Hobbyist" -> 100
                        [] a = "Committed Artist" -> 150
                        [] a = "Production Potter" -> 350
                        [] OTHER -> 75])]

\* merged = dict(defaults); merged.update(user_cfg)
MergeCfg(defaults, user_cfg) ==
    [k \in (DOMAIN defaults) \cup (DOMAIN user_cfg) |->
       IF k \in DOMAIN user_cfg THEN user_cfg[k] ELSE defaults[k]]

\* if not isinstance(merged.get(k, defaults[k]), dict): merged[k] = dict(defaults[k])
GuardDictKnob(merged, defaults, k) ==
    LET cur == IF k \in DOMAIN merged THEN merged[k] ELSE defaults[k]
    IN  IF ~isinstance_dict(cur)
        THEN [j \in (DOMAIN merged) \cup {k} |-> IF j = k THEN defaults[k] ELSE merged[j]]
        ELSE merged

resolve_cfg(defaults, user_cfg) ==
    LET merged == MergeCfg(defaults, user_cfg)
    IN  IF DOMAIN user_cfg # {}
        THEN GuardDictKnob(GuardDictKnob(merged, defaults, "POOL_BASE_INTENT"),
                           defaults, "MARKET_POOLS_INFLOW")
        ELSE merged

(***************************************************************************)
(* Simulation parameters.  A configuration gives the module constants the  *)
(* run only reads (Params) and the overrides of the names the run also     *)
(* writes (OVERRIDES).  Units: money in whole dollars, clay in whole bags, *)
(* annual loan rates and tax rates in basis points, the other rates and    *)
(* multipliers in percent, per-unit utility prices in cents.               *)
(***************************************************************************)
\* Python's None, for the optional integers of a configuration (which are
\* never negative)
None == 0 - 1

\* SEASONALITY_WEIGHTS / SEASONALITY_WEIGHTS.mean(), in percent
SEASONALITY_WEIGHTS_NORM ==
    [m \in 0..11 |->
       CASE m = 0 -> 96
         [] m = 11 -> 87
         [] m \in {1, 10} -> 105
         [] m \in {2, 4, 8} -> 114
         [] m \in {3, 9} -> 122
         [] m = 5 -> 79
         [] m = 6 -> 70
         [] OTHER -> 74]

\* a small, quiet studio: one archetype, empty prospect pools, no classes,
\* workshops, events or designated studios, no loans, no taxes
BaseParams ==
    [ calls |-> 1,   \* how many times the caller runs run_from_cfg in the process
      MONTHS |-> 2, N_SIMULATIONS |-> 1,
      RENT_SCENARIOS |-> <<1000>>, OWNER_DRAW_SCENARIOS |-> <<0>>,
      SCENARIO_CONFIGS |-> <<[name |-> "Base", grant_amount |-> 0, grant_month |-> None]>>,
      OVERRIDES |-> [MAX_MEMBERS |-> 3],
      \* loans and capital purchases
      RUNWAY_MONTHS |-> 0, LOAN_CONTINGENCY_PCT |-> 8, EXTRA_BUFFER |-> 0,
      LOAN_504_ANNUAL_RATE |-> 700, LOAN_504_TERM_YEARS |-> 5,
      LOAN_7A_ANNUAL_RATE |-> 1150, LOAN_7A_TERM_YEARS |-> 5,
      IO_MONTHS_504 |-> 0, IO_MONTHS_7A |-> 0,
      FEES_UPFRONT_PCT_7A |-> 3, FEES_UPFRONT_PCT_504 |-> 2,
      FEES_PACKAGING |-> 0, FEES_CLOSING |-> 0,
      FINANCE_FEES_7A |-> TRUE, FINANCE_FEES_504 |-> TRUE,
      CAPEX_LOAN_MODE |-> "upfront", OPEX_LOAN_MODE |-> "upfront",
      LOAN_OVERRIDE_504 |-> None, LOAN_OVERRIDE_7A |-> None,
      LOAN_STAGED_RULE |-> [draw_pct_of_purchase |-> 100, min_tranche |-> 0, max_tranche |-> None],
      LOAN_STAGED_RULE_OPEX |-> [facility_limit |-> 0, min_draw |-> 0, max_draw |-> None, reserve_floor |-> 0],
      CAPEX_LUMP_WINDOW_MONTHS |-> 2, CAPEX_ITEMS |-> << >>,
      \* owner draw
      OWNER_DRAW_START_MONTH |-> 1, OWNER_DRAW_END_MONTH |-> 12, OWNER_STIPEND_MONTHS |-> 12,
      \* operating costs
      INSURANCE_COST |-> 75, GLAZE_COST_PER_MONTH |-> 100,
      HEATING_COST_WINTER |-> 450, HEATING_COST_SUMMER |-> 30,
      COST_PER_KWH |-> 22, KWH_PER_FIRING_KMT1027 |-> 75, KWH_PER_FIRING_KMT1427 |-> 110,
      WATER_COST_PER_GALLON |-> 2, GALLONS_PER_BAG_CLAY |-> 1, WHOLESALE_CLAY_COST_PER_BAG |-> 16,
      DYNAMIC_FIRINGS |-> TRUE, BASE_FIRINGS_PER_MONTH |-> 10,
      REFERENCE_MEMBERS_FOR_BASE_FIRINGS |-> 12, MIN_FIRINGS_PER_MONTH |-> 4, MAX_FIRINGS_PER_MONTH |-> 12,
      STAFF_EXPANSION_THRESHOLD |-> 50, STAFF_COST_PER_MONTH |-> 2500,
      MAINTENANCE_BASE_COST |-> 200, MAINTENANCE_RANDOM_STD |-> 0,
      MARKETING_COST_BASE |-> 300, MARKETING_RAMP_MONTHS |-> 12, MARKETING_RAMP_MULTIPLIER |-> 200,
      RENT_GROWTH_PCT |-> 0,
      \* revenue streams
      PRICE |-> 175, RETAIL_CLAY_PRICE_PER_BAG |-> 25,
      FIRING_FEE_SCHEDULE |-> <<[up_to_lbs |-> 20, rate |-> 3], [up_to_lbs |-> 40, rate |-> 4],
                                [up_to_lbs |-> None, rate |-> 5]>>,
      DESIGNATED_STUDIO_COUNT |-> 0, DESIGNATED_STUDIO_PRICE |-> 300, DESIGNATED_STUDIO_BASE_OCCUPANCY |-> 30,
      EVENTS_ENABLED |-> FALSE, EVENTS_MAX_PER_MONTH |-> 4, BASE_EVENTS_PER_MONTH_LAMBDA |-> 3,
      TICKET_PRICE |-> 75, ATTENDEES_PER_EVENT_RANGE |-> {8}, EVENT_MUG_COST_RANGE |-> <<5, 5>>,
      EVENT_CONSUMABLES_PER_PERSON |-> 2, EVENT_STAFF_RATE_PER_HOUR |-> 22, EVENT_HOURS_PER_EVENT |-> 2,
      WORKSHOPS_ENABLED |-> FALSE, WORKSHOPS_PER_MONTH |-> 1, WORKSHOP_AVG_ATTENDANCE |-> 4,
      WORKSHOP_FEE |-> 80, WORKSHOP_COST_PER_EVENT |-> 50, WORKSHOP_CONV_RATE |-> 25, WORKSHOP_CONV_LAG_MO |-> 1,
      CLASSES_ENABLED |-> FALSE, CLASS_COHORTS_PER_MONTH |-> 1, CLASS_CAP_PER_COHORT |-> 2,
      CLASS_PRICE |-> 600, CLASS_COST_PER_STUDENT |-> 40, CLASS_INSTR_RATE_PER_HR |-> 30,
      CLASS_HOURS_PER_COHORT |-> 3, CLASS_CONV_RATE |-> 50, CLASS_CONV_LAG_MO |-> 1,
      CLASSES_CALENDAR_MODE |-> "semester", CLASS_SEMESTER_LENGTH_MONTHS |-> 3,
      CLASS_SEMESTER_START_MONTHS |-> {0, 3, 6, 9},
      \* membership dynamics
      MEMBER_ARCHETYPES |-> [a \in {"Hobbyist"} |-> [prob |-> 100, clay_bags |-> {1}]],
      ARCHETYPE_MONTHLY_CHURN |-> [a \in {"Hobbyist"} |-> 0],
      SESSIONS_PER_WEEK |-> [a \in {"Hobbyist"} |-> 100],
      SESSION_HOURS |-> [a \in {"Hobbyist"} |-> 200],
      USAGE_SHARE |-> [a \in {"Hobbyist"} |-> [wheels |-> 50, handbuilding |-> 35, glaze |-> 15]],
      OPEN_HOURS_PER_WEEK |-> 112, CAPACITY_DAMPING_BETA |-> 4, UTILIZATION_CHURN_UPLIFT |-> 25,
      DOWNTURN_PROB_PER_MONTH |-> 0, DOWNTURN_JOIN_MULT |-> 65, DOWNTURN_CHURN_MULT |-> 150,
      NO_ACCESS_POOL |-> 0, HOME_POOL |-> 0, COMMUNITY_POOL |-> 0,
      MARKET_POOLS_INFLOW |-> [community_studio |-> 0, home_studio |-> 0, no_access |-> 0],
      POOL_BASE_INTENT |-> [community_studio |-> 10, home_studio |-> 1, no_access |-> 4],
      JOIN_MODEL |-> "compartment",
      BASELINE_RATE_NO_ACCESS |-> 0, BASELINE_RATE_HOME |-> 0, BASELINE_RATE_COMMUNITY |-> 0,
      BASELINE_JOIN_RATE |-> 0, REFERRAL_RATE_PER_MEMBER |-> 0, REFERRAL_CONV |-> 22,
      WOM_Q |-> 60, WOM_SATURATION |-> 60,
      AWARENESS_RAMP_MONTHS |-> 4, AWARENESS_RAMP_START_MULT |-> 50, AWARENESS_RAMP_END_MULT |-> 100,
      CLASS_TERM_MONTHS |-> 3, CS_UNLOCK_FRACTION_PER_TERM |-> 25, MAX_ONBOARDINGS_PER_MONTH |-> None,
      USE_MANUAL_MEMBERSHIP_CURVE |-> FALSE, MANUAL_MEMBERSHIP_CURVE |-> << >>,
      \* taxes
      ENTITY_TYPE |-> "sole_prop", MA_PERSONAL_INCOME_TAX_RATE |-> 0,
      SE_EARNINGS_FACTOR |-> 9235, SE_SOC_SEC_RATE |-> 0, SE_MEDICARE_RATE |-> 0,
      SE_SOC_SEC_WAGE_BASE |-> 168600,
      SCORP_OWNER_SALARY_PER_MONTH |-> 4000, EMPLOYEE_PAYROLL_TAX_RATE |-> 765,
      EMPLOYER_PAYROLL_TAX_RATE |-> 765, FED_CORP_TAX_RATE |-> 2100, MA_CORP_TAX_RATE |-> 800,
      MA_SALES_TAX_RATE |-> 0, PERSONAL_PROPERTY_TAX_ANNUAL |-> 0, PERSONAL_PROPERTY_TAX_BILL_MONTH |-> 3,
      ESTIMATED_TAX_REMIT_FREQUENCY_MONTHS |-> 3, SALES_TAX_REMIT_FREQUENCY_MONTHS |-> 3 ]

\* the module namespace after import, restricted to the names a run writes:
\* MAX_MEMBERS and STATIONS (alpha in percent, kappa in tenths) are defined at
\* module level; CLAY_COGS_MULT, PUGMILL_MAINT_COST_PER_MONTH and
\* SLAB_ROLLER_MAINT_COST_PER_MONTH are not
ModuleGlobals ==
    [ MAX_MEMBERS |-> 77,
      STATIONS |-> [ wheels |-> [capacity |-> 8, alpha |-> 80, kappa |-> 20],
                     handbuilding |-> [capacity |-> 6, alpha |-> 50, kappa |-> 30],
                     glaze |-> [capacity |-> 6, alpha |-> 55, kappa |-> 26] ] ]

\* globals().get(k, default)
GlobalsGet(g, k, default) == IF k \in DOMAIN g THEN g[k] ELSE default

\* the words of a capital item's label that the purchase effects look for
\* ("rack" in lbl, "pug" in lbl, ...)
LabelWords(lbl) ==
    CASE lbl = "Wire racks" -> {"rack"}
      [] lbl = "Pug mill" -> {"pug"}
      [] lbl = "Slab roller" -> {"slab", "roll"}
      [] lbl = "Kiln 2" -> {"kiln"}
      [] lbl = "Wheels" -> {"wheel"}
      [] OTHER -> {}

\* x * bp / 10000, floored
Bp(x, bp) == (x * bp) \div 10000

(***************************************************************************)
(* Capacity model and trial set-up of _core_simulation_and_reports.  The   *)
(* operators take the configuration c (the overridden module constants).   *)
(***************************************************************************)
RECURSIVE SumSeq(_)
SumSeq(s) == IF s = << >> THEN 0 ELSE Head(s) + SumSeq(Tail(s))

RECURSIVE SumFn(_, _)
SumFn(f, S) ==
    IF S = {} THEN 0
    ELSE LET x == CHOOSE y \in S : TRUE
         IN  f[x] + SumFn(f, S \ {x})

\* the soft membership cap in hundredths of a member: the minimum over the
\* stations of alpha * capacity * H / (kappa * denom), denom the archetype
\* mix of sessions * hours * usage share
compute_membership_soft_cap(c, stations) ==
    LET archs == DOMAIN c.MEMBER_ARCHETYPES
        denom(s) ==
            SumFn([a \in archs |->
                     c.MEMBER_ARCHETYPES[a].prob * c.SESSIONS_PER_WEEK[a]
                       * c.SESSION_HOURS[a] * c.USAGE_SHARE[a][s]], archs) \div 1000
        cap(s) ==
            (stations[s].alpha * stations[s].capacity * c.OPEN_HOURS_PER_WEEK * 1000)
              \div ((stations[s].kappa * denom(s)) \div 1000)
        caps == {cap(s) : s \in DOMAIN stations}
    IN  CHOOSE x \in caps : \A y \in caps : x <= y

\* int(_it.get("count", 1) or 1)
ItemCount(it) == IF it.count = 0 THEN 1 ELSE it.count

\* unit * max(1, cnt), or the amount fallback (0 when there is none)
ItemTotalCost(it) ==
    LET total_cost == it.unit_cost * Max(1, ItemCount(it))
    IN  IF total_cost > 0 THEN total_cost
        ELSE IF it.amount = None THEN 0 ELSE it.amount

\* capex_table_total: the enabled items' costs
capex_table_total(c) ==
    SumSeq([i \in 1..Len(c.CAPEX_ITEMS) |->
              IF c.CAPEX_ITEMS[i].enabled THEN ItemTotalCost(c.CAPEX_ITEMS[i]) ELSE 0])

\* loan sizing and SBA fees of one trial
LoanSizing(c, fixed_rent, owner_draw) ==
    LET avg_monthly_heat == (c.HEATING_COST_WINTER + c.HEATING_COST_SUMMER) \div 2
        runway_costs == (c.INSURANCE_COST + c.GLAZE_COST_PER_MONTH + avg_monthly_heat
                           + fixed_rent + owner_draw) * c.RUNWAY_MONTHS
        total_capex_for_loan == capex_table_total(c)
        p504 == total_capex_for_loan + Pct(total_capex_for_loan, c.LOAN_CONTINGENCY_PCT)
        p7a == runway_costs + c.EXTRA_BUFFER
        fees_7a_total == Pct(p7a, c.FEES_UPFRONT_PCT_7A) + c.FEES_PACKAGING + c.FEES_CLOSING
        fees_504_total == Pct(p504, c.FEES_UPFRONT_PCT_504)
        sized504 == IF c.FINANCE_FEES_504 THEN p504 + fees_504_total ELSE p504
        sized7a == IF c.FINANCE_FEES_7A THEN p7a + fees_7a_total ELSE p7a
    IN  [ loan_504_principal |-> IF c.LOAN_OVERRIDE_504 # None THEN c.LOAN_OVERRIDE_504 ELSE sized504,
          loan_7a_principal |-> IF c.LOAN_OVERRIDE_7A # None THEN c.LOAN_OVERRIDE_7A ELSE sized7a,
          fees_cash_outflow |-> (IF c.FINANCE_FEES_7A THEN 0 ELSE fees_7a_total)
                                  + (IF c.FINANCE_FEES_504 THEN 0 ELSE fees_504_total),
          runway_costs |-> runway_costs ]

\* the per-trial queue of capital items: enabled, with a positive cost and a
\* month or a member-count trigger; none purchased
BuildCapexQueue(c) ==
    LET keep(it) == /\ it.enabled
                    /\ ItemTotalCost(it) > 0
                    /\ (it.month # None \/ it.member_threshold # None)
        kept == SelectSeq(c.CAPEX_ITEMS, keep)
    IN  [i \in 1..Len(kept) |->
           [unit_cost |-> kept[i].unit_cost, count |-> ItemCount(kept[i]),
            month |-> kept[i].month, member_threshold |-> kept[i].member_threshold,
            label |-> kept[i].label, purchased |-> FALSE]]

\* _lump_capex_table over the month-triggered items of the queue: every
\* item with a positive count and unit cost falls into the bucket
\* (month // window) * window; anchors maps a label to the bucket of the last
\* item that carries it
lump_capex_table(queue, horizon, window_months, staged_pct) ==
    LET isItem(it) == it.month # None /\ it.count > 0 /\ it.unit_cost > 0
        items == SelectSeq(queue, isItem)
        wnd == Max(1, window_months)
        anchor(it) == (it.month \div wnd) * wnd
        purchases == [m \in 0..(horizon - 1) |->
                        SumSeq([i \in 1..Len(items) |->
                                  IF anchor(items[i]) = m
                                  THEN items[i].count * items[i].unit_cost ELSE 0])]
        labels == {items[i].label : i \in 1..Len(items)}
        last(l) == CHOOSE i \in 1..Len(items) :
                     /\ items[i].label = l
                     /\ \A j \in 1..Len(items) : items[j].label = l => j <= i
    IN  [ purchases |-> purchases,
          eligible |-> [m \in 0..(horizon - 1) |-> Pct(purchases[m], staged_pct)],
          anchors |-> [l \in labels |-> anchor(items[last(l)])] ]

RECURSIVE PrefixSum(_, _)
PrefixSum(arr, m) == IF m < 0 THEN 0 ELSE arr[m] + PrefixSum(arr, m - 1)

\* _tranche_from_schedule(eligible, min_tranche, max_tranche, "draw").  With
\* no minimum the draws are the eligible amounts, capped.  With a minimum the
\* bucket loop never reduces the bucket, so it does not end once the bucket has
\* reached the minimum (hangs), unless the cap is negative and the loop breaks
\* on take <= 0; otherwise nothing is drawn until the tail, which puts the
\* whole bucket on the last month.
tranche_from_schedule(eligible, min_tranche, max_tranche) ==
    LET n == ArrLen(eligible)
        capped == max_tranche \notin {None, 0}
        total == PrefixSum(eligible, n - 1)
    IN  IF min_tranche <= 0
        THEN [hangs |-> FALSE,
              draws |-> [m \in DOMAIN eligible |->
                           IF capped THEN Min(eligible[m], max_tranche) ELSE eligible[m]]]
        ELSE IF /\ \E m \in DOMAIN eligible : PrefixSum(eligible, m) >= min_tranche
                /\ (capped => max_tranche > 0)
        THEN [hangs |-> TRUE, draws |-> Zeros(n)]
        ELSE [hangs |-> FALSE,
              draws |-> [m \in DOMAIN eligible |-> IF m = n - 1 /\ total > 0 THEN total ELSE 0]]

\* apply_workshops: the net revenue per month and the joins_from_workshops
\* array: the conversions of month t land in month min(T-1, t + lag)
apply_workshops(c, T) ==
    LET attendees_pm == c.WORKSHOPS_PER_MONTH * c.WORKSHOP_AVG_ATTENDANCE
        net_rev_pm == attendees_pm * c.WORKSHOP_FEE - c.WORKSHOPS_PER_MONTH * c.WORKSHOP_COST_PER_EVENT
        conv_joins_pm == RoundHalfEven(attendees_pm * c.WORKSHOP_CONV_RATE, 100)
        lands(t) == Min(T - 1, t + c.WORKSHOP_CONV_LAG_MO)
    IN  IF ~c.WORKSHOPS_ENABLED
        THEN [workshop_revenue |-> Zeros(T), joins_from_workshops |-> Zeros(T)]
        ELSE [workshop_revenue |-> [t \in 0..(T - 1) |-> net_rev_pm],
              joins_from_workshops |->
                [m \in 0..(T - 1) |->
                   conv_joins_pm * Cardinality({t \in 0..(T - 1) : lands(t) = m})]]

(***************************************************************************)
(* Membership dynamics of one month.  A probability or a rate enters the   *)
(* model only through whether it is positive: a binomial draw with a       *)
(* positive probability takes any value 0..n, a Poisson draw with a        *)
(* positive rate any value 0..MaxPoisson, and a draw with probability or   *)
(* rate 0 is 0.  The lognormal noise and the price multipliers are always  *)
(* positive.                                                               *)
(***************************************************************************)
\* _months_until_date(date.today(), date(2026, 1, 1)) for a run on or after
\* 1 January 2026
gate_months == 0 * 1

\* _is_class_month
is_class_month(c, month) ==
    IF ~c.CLASSES_ENABLED THEN FALSE
    ELSE IF month < gate_months THEN FALSE
    ELSE IF c.CLASSES_CALENDAR_MODE = "monthly" THEN TRUE
    ELSE \E start \in c.CLASS_SEMESTER_START_MONTHS :
           /\ 0 <= (month % 12) - start
           /\ (month % 12) - start < c.CLASS_SEMESTER_LENGTH_MONTHS

\* awareness_multiplier, in percent
awareness_multiplier(c, month_idx) ==
    IF c.AWARENESS_RAMP_MONTHS <= 0 THEN c.AWARENESS_RAMP_END_MULT
    ELSE c.AWARENESS_RAMP_START_MULT
           + (Min(month_idx, c.AWARENESS_RAMP_MONTHS)
                * (c.AWARENESS_RAMP_END_MULT - c.AWARENESS_RAMP_START_MULT))
             \div c.AWARENESS_RAMP_MONTHS

\* wom_multiplier, in percent
wom_multiplier(c, current_members) ==
    IF c.WOM_SATURATION <= 0 THEN 100
    ELSE 100 + (c.WOM_Q * current_members) \div c.WOM_SATURATION

RECURSIVE Pow(_, _)
Pow(x, k) == IF k <= 0 THEN 1 ELSE x * Pow(x, k - 1)

\* mutant of capacity_damping: the difference is not floored at 0
capacity_damping_NoFloor(n, soft_cap, beta) ==
    LET den == Max(100, soft_cap)
    IN  [num |-> Pow(den, beta) - Pow(100 * n, beta), den |-> Pow(den, beta)]

\* capacity_damping = max(0.0, 1.0 - cap_ratio ** beta) with
\* cap_ratio = n / max(1.0, MEMBERSHIP_SOFT_CAP), as the exact fraction
\* num / den (soft_cap in hundredths, beta a whole number)
capacity_damping(n, soft_cap, beta) ==
    LET den == Max(100, soft_cap)
    IN  [num |-> Max(0, Pow(den, beta) - Pow(100 * n, beta)), den |-> Pow(den, beta)]

\* capacity_damping = max(0, 1 - cap_ratio ** beta) is 0 exactly when
\* cap_ratio ** beta >= 1, cap_ratio = n / max(1.0, MEMBERSHIP_SOFT_CAP)
\* (beta >= 0; soft_cap in hundredths)
CapacityDampingIsZero(c, n, soft_cap) ==
    IF c.CAPACITY_DAMPING_BETA = 0 THEN TRUE
    ELSE 100 * n >= Max(100, soft_cap)

\* intent_common_mult > 0
IntentMultPositive(c, month, n, is_downturn, soft_cap) ==
    /\ SEASONALITY_WEIGHTS_NORM[month % 12] > 0
    /\ (IF is_downturn THEN c.DOWNTURN_JOIN_MULT ELSE 100) > 0
    /\ awareness_multiplier(c, month) > 0
    /\ wom_multiplier(c, n) > 0
    /\ ~CapacityDampingIsZero(c, n, soft_cap)

\* pool_intents[k] > 0
PoolIntentPositive(c, k, mult_positive) ==
    /\ mult_positive
    /\ IF c.JOIN_MODEL = "compartment"
       THEN (CASE k = "no_access" -> c.BASELINE_RATE_NO_ACCESS
               [] k = "home_studio" -> c.BASELINE_RATE_HOME
               [] OTHER -> c.BASELINE_RATE_COMMUNITY) > 0
       ELSE c.POOL_BASE_INTENT[k] > 0

\* the values rng.binomial(n = int(max(0, remaining_pool)), p) takes
BinomialSupport(remaining_pool, p_positive) ==
    IF p_positive THEN 0..Max(0, remaining_pool) ELSE {0}

\* the values rng.poisson(lam) takes
PoissonSupport(lam_positive) == IF lam_positive THEN 0..MaxPoisson ELSE {0}

\* draw_adopters: the binomial outcome, at most the pool
draw_adopters(remaining_pool, p_positive, raw) ==
    IF p_positive THEN Min(raw, Max(0, remaining_pool)) ELSE 0

\* compute_cs_unlock_share
compute_cs_unlock_share(c, month_idx, remaining_cs_pool) ==
    IF c.CLASS_TERM_MONTHS <= 0 \/ remaining_cs_pool <= 0 THEN 0
    ELSE IF (month_idx % c.CLASS_TERM_MONTHS) = 0 /\ month_idx > 0
         THEN Pct(remaining_cs_pool, c.CS_UNLOCK_FRACTION_PER_TERM)
         ELSE 0

\* mutant of ReplenishAndUnlock: a prospect arrives in the no-access pool
\* every month whatever the configured inflow is
ReplenishAndUnlock_Arrival(c, month, pool, cs_eligible) ==
    [ remaining_pool |-> [pool EXCEPT !.no_access = @ + 1], cs_eligible |-> cs_eligible ]

\* the monthly inflow into the pools and the unlock of community-studio
\* prospects at a term boundary
ReplenishAndUnlock(c, month, pool, cs_eligible) ==
    LET p1 == [k \in DOMAIN pool |-> pool[k] + c.MARKET_POOLS_INFLOW[k]]
        unlock_now == Min(compute_cs_unlock_share(c, month, p1.community_studio),
                          p1.community_studio)
    IN  [ remaining_pool |-> [p1 EXCEPT !.community_studio = @ - unlock_now],
          cs_eligible |-> cs_eligible + unlock_now ]

\* demand taken from no-access first, then from the eligible community-studio
\* prospects, then from home-studio
AllocateGreedy(demand, pool_no, cs, pool_home) ==
    LET no == Min(demand, pool_no)
        csx == Min(demand - no, cs)
        home == Min(demand - no - csx, pool_home)
    IN  [no_access |-> no, cs |-> csx, home |-> home]

\* the joins of a month before any cap: organic draws, referrals, baseline
\* joins, class and workshop conversions, and the pools they leave
JoinFlow(c, pool0, cs0, class_joins_now, ws_joins, joins_no_access, joins_home, joins_comm_studio, raw_ref, raw_base) ==
    LET no1 == pool0.no_access - joins_no_access
        home1 == pool0.home_studio - joins_home
        cs1 == cs0 - joins_comm_studio
        referral_joins == Min(raw_ref, no1 + home1 + cs1)
        baseline_demand == IF c.JOIN_MODEL # "compartment" THEN Min(raw_base, no1 + home1 + cs1) ELSE 0
        bn == IF c.JOIN_MODEL # "compartment"
              THEN AllocateGreedy(baseline_demand, no1, cs1, home1)
              ELSE [no_access |-> 0, cs |-> 0, home |-> 0]
        baseline_joins == bn.no_access + bn.cs + bn.home
        ref == AllocateGreedy(referral_joins, no1 - bn.no_access, cs1 - bn.cs, home1 - bn.home)
    IN  [ joins_no_access |-> joins_no_access, joins_home |-> joins_home,
          joins_comm_studio |-> joins_comm_studio,
          bn_no_access |-> bn.no_access, bn_home |-> bn.home, bn_cs |-> bn.cs,
          ref_no_access |-> ref.no_access, ref_home |-> ref.home, ref_cs |-> ref.cs,
          baseline_joins |-> baseline_joins, referral_joins |-> referral_joins,
          class_joins_now |-> class_joins_now,
          joins |-> class_joins_now + (joins_no_access + joins_home + joins_comm_studio)
                      + baseline_joins + referral_joins + ws_joins,
          remaining_pool |-> [pool0 EXCEPT !.no_access = no1 - bn.no_access - ref.no_access,
                                           !.home_studio = home1 - bn.home - ref.home],
          cs_eligible |-> cs1 - bn.cs - ref.cs,
          overflow |-> 0, rb_no_access |-> 0, rb_home |-> 0, rb_cs |-> 0 ]

\* mutant of OnboardingCap: the cap is not applied
OnboardingCap_Off(max_onboardings, s) == s

\* the onboarding cap: the joins over the cap are rolled back, class converts
\* first, the rest returned to the pools in proportion to what was taken
OnboardingCap(max_onboardings, s) ==
    IF max_onboardings = None \/ s.joins <= max_onboardings THEN s
    ELSE
      LET overflow0 == s.joins - max_onboardings
          rb_classes == Min(overflow0, s.class_joins_now)
          class_joins_now == s.class_joins_now - rb_classes
          overflow == overflow0 - rb_classes
          take_no_access_total == s.joins_no_access + s.bn_no_access + s.ref_no_access
          take_home_total == s.joins_home + s.bn_home + s.ref_home
          take_cs_total == s.joins_comm_studio + s.bn_cs + s.ref_cs
          total_drawn == Max(1, take_no_access_total + take_home_total + take_cs_total)
          rb_no_access == RoundHalfEven(overflow * take_no_access_total, total_drawn)
          rb_home == RoundHalfEven(overflow * take_home_total, total_drawn)
          rb_cs == overflow - rb_no_access - rb_home
          \* referrals give back first, then baseline, then organic
          ref_give_no == Min(rb_no_access, s.ref_no_access)
          bn_give_no == Min(rb_no_access - ref_give_no, s.bn_no_access)
          ref_give_home == Min(rb_home, s.ref_home)
          bn_give_home == Min(rb_home - ref_give_home, s.bn_home)
          ref_give_cs == Min(rb_cs, s.ref_cs)
          bn_give_cs == Min(rb_cs - ref_give_cs, s.bn_cs)
          ref_no_access == s.ref_no_access - ref_give_no
          ref_home == s.ref_home - ref_give_home
          ref_cs == s.ref_cs - ref_give_cs
          bn_no_access == s.bn_no_access - bn_give_no
          bn_home == s.bn_home - bn_give_home
          bn_cs == s.bn_cs - bn_give_cs
          joins_no_access == s.joins_no_access - (rb_no_access - ref_give_no - bn_give_no)
          joins_home == s.joins_home - (rb_home - ref_give_home - bn_give_home)
          joins_comm_studio == s.joins_comm_studio - (rb_cs - ref_give_cs - bn_give_cs)
          baseline_joins == bn_no_access + bn_home + bn_cs
          referral_joins == ref_no_access + ref_home + ref_cs
          joins == class_joins_now + (joins_no_access + joins_home + joins_comm_studio)
                     + baseline_joins + referral_joins
      IN  [ joins_no_access |-> joins_no_access, joins_home |-> joins_home,
            joins_comm_studio |-> joins_comm_studio,
            bn_no_access |-> bn_no_access, bn_home |-> bn_home, bn_cs |-> bn_cs,
            ref_no_access |-> ref_no_access, ref_home |-> ref_home, ref_cs |-> ref_cs,
            baseline_joins |-> baseline_joins, referral_joins |-> referral_joins,
            class_joins_now |-> class_joins_now,
            joins |-> Min(joins, max_onboardings),
            remaining_pool |-> [s.remaining_pool EXCEPT !.no_access = @ + rb_no_access,
                                                        !.home_studio = @ + rb_home],
            cs_eligible |-> s.cs_eligible + rb_cs,
            overflow |-> overflow, rb_no_access |-> rb_no_access, rb_home |-> rb_home,
            rb_cs |-> rb_cs ]

\* mutant of HardCeiling: the joins are not cut to the room that is left
HardCeiling_Off(joins, max_members, n_active) == joins

\* joins = min(joins, MAX_MEMBERS - len(active_members))
HardCeiling(joins, max_members, n_active) == Min(joins, max_members - n_active)

\* month_churn_prob with the archetype's base churn in ten-thousandths:
\* onboarding risk up to tenure 2, the base up to 6, sticky afterwards
month_churn_prob(base, tenure_mo) ==
    IF tenure_mo <= 2 THEN Min(9900, (base * 18) \div 10)
    ELSE IF tenure_mo <= 6 THEN base
    ELSE (base * 7) \div 10

\* seasonal_churn_mult(month_idx), in percent
seasonal_churn_mult(month_idx) ==
    LET m == (month_idx % 12) + 1
    IN  IF m \in {6, 7, 8} THEN 125
        ELSE IF m \in {1, 2} THEN 115
        ELSE IF m \in {11, 12} THEN 110
        ELSE 100

\* mutant of p_leave: the product is not clipped
p_leave_NoClip(base, tenure_mo, churn_mult, price_mult_churn, crowding, month) ==
    Pct(Pct(Pct(Pct(month_churn_prob(base, tenure_mo), churn_mult), price_mult_churn),
            crowding), seasonal_churn_mult(month))

\* the leave probability of a member, in ten-thousandths: the tenure hazard
\* times the downturn, price, crowding (1 + uplift * util_over) and seasonal
\* multipliers (in percent), clipped to [0, 0.99]
p_leave(base, tenure_mo, churn_mult, price_mult_churn, crowding, month) ==
    LET p1 == Pct(month_churn_prob(base, tenure_mo), churn_mult)
        p2 == Pct(p1, price_mult_churn)
        p3 == Pct(p2, crowding)
        p4 == Pct(p3, seasonal_churn_mult(month))
    IN  Max(0, Min(9900, p4))

\* month_churn_prob(...) * churn_mult * ... > 0 (the clip to [0, 0.99] keeps a
\* positive probability below 1)
ChurnProbPositive(c, member, is_downturn) ==
    /\ c.ARCHETYPE_MONTHLY_CHURN[member.type] > 0
    /\ (IF is_downturn THEN c.DOWNTURN_CHURN_MULT ELSE 100) > 0

(***************************************************************************)
(* Revenue, cost and tax accrual of one month.                             *)
(***************************************************************************)
\* the tier loop of compute_firing_fee from tier i on
RECURSIVE FiringFeeTiers(_, _, _, _)
FiringFeeTiers(sched, i, remaining, prev_cut) ==
    IF i > Len(sched) THEN remaining * sched[Len(sched)].rate
    ELSE LET up_to == sched[i].up_to_lbs
             band == IF up_to = None THEN Max(0, remaining)
                     ELSE Max(0, Min(remaining, up_to - prev_cut))
             rest == remaining - band
         IN  band * sched[i].rate
               + (IF rest <= 0 THEN 0 ELSE FiringFeeTiers(sched, i + 1, rest, up_to))

compute_firing_fee(c, clay_lbs) == FiringFeeTiers(c.FIRING_FEE_SCHEDULE, 1, clay_lbs, 0)

firings_this_month(c, n_active_members) ==
    IF ~c.DYNAMIC_FIRINGS THEN c.BASE_FIRINGS_PER_MONTH
    ELSE Min(c.MAX_FIRINGS_PER_MONTH,
             Max(c.MIN_FIRINGS_PER_MONTH,
                 RoundHalfEven(c.BASE_FIRINGS_PER_MONTH * n_active_members,
                               Max(1, c.REFERENCE_MEMBERS_FOR_BASE_FIRINGS))))

in_owner_draw_window(c, month_idx) ==
    IF c.OWNER_DRAW_END_MONTH = None THEN month_idx + 1 >= c.OWNER_DRAW_START_MONTH
    ELSE c.OWNER_DRAW_START_MONTH <= month_idx + 1 /\ month_idx + 1 <= c.OWNER_DRAW_END_MONTH

\* fixed_rent * (1 + RENT_GROWTH_PCT/100) ** year_index
RECURSIVE RentInYear(_, _, _)
RentInYear(fixed_rent, growth_pct, year_index) ==
    IF year_index <= 0 THEN fixed_rent
    ELSE LET r == RentInYear(fixed_rent, growth_pct, year_index - 1)
         IN  r + Pct(r, growth_pct)

\* the revenue streams of the month (lines 1676-1719, 1802-1810): t is the
\* trial state, mo the month's membership results, ws the workshop stream,
\* f the month's random draws
Revenues(c, t, mo, month, ws, f) ==
    LET total_bags == SumSeq(f.bags)
        revenue_events_gross ==
            SumSeq([i \in 1..Len(f.events) |-> f.events[i].attendees * c.TICKET_PRICE])
        events_cost_materials ==
            SumSeq([i \in 1..Len(f.events) |->
                      f.events[i].attendees * (f.events[i].mug_cost + c.EVENT_CONSUMABLES_PER_PERSON)])
        events_cost_labor ==
            IF c.EVENT_STAFF_RATE_PER_HOUR > 0 /\ c.EVENT_HOURS_PER_EVENT > 0
            THEN Len(f.events) * c.EVENT_STAFF_RATE_PER_HOUR * c.EVENT_HOURS_PER_EVENT
            ELSE 0
        r == [ revenue_membership |-> c.PRICE * Len(t.active_members),
               revenue_clay |-> total_bags * c.RETAIL_CLAY_PRICE_PER_BAG,
               revenue_firing |->
                   SumSeq([i \in 1..Len(f.bags) |-> compute_firing_fee(c, f.bags[i] * 25)]),
               revenue_events |->
                   Max(0, revenue_events_gross - events_cost_materials - events_cost_labor),
               revenue_workshops |-> IF c.WORKSHOPS_ENABLED THEN ws.workshop_revenue[month] ELSE 0,
               revenue_designated_studios |-> f.ds_occupied * c.DESIGNATED_STUDIO_PRICE,
               revenue_classes |-> IF c.CLASSES_ENABLED THEN mo.revenue_classes ELSE 0,
               events_this_month |-> Len(f.events), total_bags |-> total_bags ]
    IN  [ rev |-> r,
          total_revenue |-> r.revenue_membership + r.revenue_clay + r.revenue_firing + r.revenue_events
                              + r.revenue_workshops + r.revenue_designated_studios + r.revenue_classes ]

\* the operating costs of the month (lines 1721-1799): g is the module
\* namespace
OperatingCosts(c, g, t, month, fixed_rent, owner_draw, total_bags, f) ==
    LET n == Len(t.active_members)
        kwh_per_firing ==
            c.KWH_PER_FIRING_KMT1027 + (IF t.dyn.KILN_COUNT >= 2 THEN c.KWH_PER_FIRING_KMT1427 ELSE 0)
        owner_salary_expense == IF c.ENTITY_TYPE = "s_corp" THEN c.SCORP_OWNER_SALARY_PER_MONTH ELSE 0
        k == [ variable_clay_cost |->
                   Pct(total_bags * c.WHOLESALE_CLAY_COST_PER_BAG, GlobalsGet(g, "CLAY_COGS_MULT", 100)),
               water_cost |-> (total_bags * c.GALLONS_PER_BAG_CLAY * c.WATER_COST_PER_GALLON) \div 100,
               electricity_cost |-> (firings_this_month(c, n) * kwh_per_firing * c.COST_PER_KWH) \div 100,
               monthly_heating_cost |->
                   IF (month % 12) \in {10, 11, 0, 1, 2, 3}
                   THEN c.HEATING_COST_WINTER ELSE c.HEATING_COST_SUMMER,
               staff_cost |-> IF n >= c.STAFF_EXPANSION_THRESHOLD THEN c.STAFF_COST_PER_MONTH ELSE 0,
               maintenance_cost |->
                   c.MAINTENANCE_BASE_COST + Max(0, f.maint_noise)
                     + GlobalsGet(g, "PUGMILL_MAINT_COST_PER_MONTH", 0)
                     + GlobalsGet(g, "SLAB_ROLLER_MAINT_COST_PER_MONTH", 0),
               marketing_cost |->
                   IF month < c.MARKETING_RAMP_MONTHS
                   THEN Pct(c.MARKETING_COST_BASE, c.MARKETING_RAMP_MULTIPLIER)
                   ELSE c.MARKETING_COST_BASE,
               owner_salary_expense |-> owner_salary_expense,
               employer_payroll_tax |-> Bp(owner_salary_expense, c.EMPLOYER_PAYROLL_TAX_RATE),
               rent_this_month |-> RentInYear(fixed_rent, c.RENT_GROWTH_PCT, month \div 12),
               owner_draw_now |->
                   IF in_owner_draw_window(c, month) /\ month < c.OWNER_STIPEND_MONTHS
                   THEN owner_draw ELSE 0,
               loan_payment_total |-> t.loan_payment_504_ts[month] + t.loan_payment_7a_ts[month] ]
    IN  [ cost |-> k,
          fixed_opex_profit |->
              k.rent_this_month + c.INSURANCE_COST + c.GLAZE_COST_PER_MONTH + k.monthly_heating_cost,
          variable_opex |->
              k.variable_clay_cost + k.water_cost + k.electricity_cost + k.staff_cost + k.marketing_cost
                + k.maintenance_cost + k.owner_salary_expense + k.employer_payroll_tax ]

\* SelfEmploymentTax without the wage-base cap
SelfEmploymentTax_NoCap(c, t, op_profit) ==
    LET se_earnings == Bp(Max(0, op_profit), c.SE_EARNINGS_FACTOR)
    IN  IF c.ENTITY_TYPE \in {"sole_prop", "partnership"}
        THEN [ ss_taxable_now |-> se_earnings,
               se_tax_this_month |->
                   Bp(se_earnings, c.SE_SOC_SEC_RATE) + Bp(se_earnings, c.SE_MEDICARE_RATE) ]
        ELSE [ ss_taxable_now |-> 0, se_tax_this_month |-> 0 ]

\* the self-employment tax of the month (lines 1820-1829)
SelfEmploymentTax(c, t, op_profit) ==
    LET se_earnings == Bp(Max(0, op_profit), c.SE_EARNINGS_FACTOR)
        ss_taxable_now ==
            Min(se_earnings, Max(0, c.SE_SOC_SEC_WAGE_BASE - t.se_ss_wage_base_used_ytd))
    IN  IF c.ENTITY_TYPE \in {"sole_prop", "partnership"}
        THEN [ ss_taxable_now |-> ss_taxable_now,
               se_tax_this_month |->
                   Bp(ss_taxable_now, c.SE_SOC_SEC_RATE) + Bp(se_earnings, c.SE_MEDICARE_RATE) ]
        ELSE [ ss_taxable_now |-> 0, se_tax_this_month |-> 0 ]

\* the income taxes accrued in the month (lines 1831-1845), given the
\* self-employment tax se
IncomeTaxAccrual(c, op_profit, se) ==
    LET pass_through == c.ENTITY_TYPE \in {"sole_prop", "partnership"}
        ma_taxable_income ==
            IF pass_through THEN Max(0, op_profit - se.se_tax_this_month \div 2) ELSE Max(0, op_profit)
    IN  [ se_tax_this_month |-> se.se_tax_this_month,
          ss_taxable_now |-> se.ss_taxable_now,
          state_income_tax_this_month |->
              IF pass_through \/ c.ENTITY_TYPE = "s_corp"
              THEN Bp(ma_taxable_income, c.MA_PERSONAL_INCOME_TAX_RATE) ELSE 0,
          corp_tax_this_month |->
              IF c.ENTITY_TYPE = "c_corp"
              THEN Bp(Max(0, op_profit), c.FED_CORP_TAX_RATE + c.MA_CORP_TAX_RATE) ELSE 0 ]

\* TaxRemittance with a remittance that leaves the accrued income taxes in
\* their accumulators
TaxRemittance_KeepAccrued(c, t, month, revenue_clay, x) ==
    LET remit_now == (month + 1) % c.ESTIMATED_TAX_REMIT_FREQUENCY_MONTHS = 0
        remit_personal == remit_now /\ c.ENTITY_TYPE \in {"sole_prop", "partnership", "s_corp"}
        remit_corp == remit_now /\ c.ENTITY_TYPE = "c_corp"
        sales_remit_now == (month + 1) % c.SALES_TAX_REMIT_FREQUENCY_MONTHS = 0
        acc == [ se |-> t.se_tax_payable_accum + x.se_tax_this_month,
                 state |-> t.state_tax_payable_accum + x.state_income_tax_this_month,
                 corp |-> t.corp_tax_payable_accum + x.corp_tax_this_month,
                 sales_tax_collected |-> Bp(revenue_clay, c.MA_SALES_TAX_RATE) ]
        sales_accum == t.sales_tax_payable_accum + acc.sales_tax_collected
    IN  [ property_tax_this_month |->
              IF c.PERSONAL_PROPERTY_TAX_ANNUAL > 0
                   /\ (month + 1) % 12 = c.PERSONAL_PROPERTY_TAX_BILL_MONTH % 12
              THEN c.PERSONAL_PROPERTY_TAX_ANNUAL \div 12 ELSE 0,
          income_tax_payments |->
              (IF remit_personal THEN acc.se + acc.state ELSE 0)
                + (IF remit_corp THEN acc.corp ELSE 0),
          sales_tax_collected |-> acc.sales_tax_collected,
          sales_tax_remitted |-> IF sales_remit_now THEN sales_accum ELSE 0,
          \* the accumulators after the month
          se_tax_payable_accum |-> acc.se,
          state_tax_payable_accum |-> acc.state,
          corp_tax_payable_accum |-> acc.corp,
          sales_tax_payable_accum |-> IF sales_remit_now THEN 0 ELSE sales_accum ]

\* property tax, the remittances of the accrued income taxes and the sales
\* tax (lines 1847-1871), given the taxes x accrued in the month
TaxRemittance(c, t, month, revenue_clay, x) ==
    LET remit_now == (month + 1) % c.ESTIMATED_TAX_REMIT_FREQUENCY_MONTHS = 0
        remit_personal == remit_now /\ c.ENTITY_TYPE \in {"sole_prop", "partnership", "s_corp"}
        remit_corp == remit_now /\ c.ENTITY_TYPE = "c_corp"
        sales_remit_now == (month + 1) % c.SALES_TAX_REMIT_FREQUENCY_MONTHS = 0
        acc == [ se |-> t.se_tax_payable_accum + x.se_tax_this_month,
                 state |-> t.state_tax_payable_accum + x.state_income_tax_this_month,
                 corp |-> t.corp_tax_payable_accum + x.corp_tax_this_month,
                 sales_tax_collected |-> Bp(revenue_clay, c.MA_SALES_TAX_RATE) ]
        sales_accum == t.sales_tax_payable_accum + acc.sales_tax_collected
    IN  [ property_tax_this_month |->
              IF c.PERSONAL_PROPERTY_TAX_ANNUAL > 0
                   /\ (month + 1) % 12 = c.PERSONAL_PROPERTY_TAX_BILL_MONTH % 12
              THEN c.PERSONAL_PROPERTY_TAX_ANNUAL \div 12 ELSE 0,
          income_tax_payments |->
              (IF remit_personal THEN acc.se + acc.state ELSE 0)
                + (IF remit_corp THEN acc.corp ELSE 0),
          sales_tax_collected |-> acc.sales_tax_collected,
          sales_tax_remitted |-> IF sales_remit_now THEN sales_accum ELSE 0,
          \* the accumulators after the month
          se_tax_payable_accum |-> IF remit_personal THEN 0 ELSE acc.se,
          state_tax_payable_accum |-> IF remit_personal THEN 0 ELSE acc.state,
          corp_tax_payable_accum |-> IF remit_corp THEN 0 ELSE acc.corp,
          sales_tax_payable_accum |-> IF sales_remit_now THEN 0 ELSE sales_accum ]

\* the cash view of the month (lines 1873-1900) and the values the month
\* reports: r the revenues, k the costs, x the accrued taxes, p the payments
CashView(t, r, k, x, p) ==
    LET total_opex_profit == k.fixed_opex_profit + k.variable_opex
        tax_payments_this_month == p.income_tax_payments + p.sales_tax_remitted
        total_opex_cash ==
            k.fixed_opex_profit + k.cost.loan_payment_total + k.cost.owner_draw_now + k.variable_opex
              + p.property_tax_this_month + (tax_payments_this_month - p.sales_tax_remitted)
    IN  [ revenue_membership |-> r.rev.revenue_membership, revenue_clay |-> r.rev.revenue_clay,
          revenue_firing |-> r.rev.revenue_firing, revenue_events |-> r.rev.revenue_events,
          revenue_designated_studios |-> r.rev.revenue_designated_studios,
          events_this_month |-> r.rev.events_this_month,
          staff_cost |-> k.cost.staff_cost, maintenance_cost |-> k.cost.maintenance_cost,
          marketing_cost |-> k.cost.marketing_cost, variable_clay_cost |-> k.cost.variable_clay_cost,
          owner_salary_expense |-> k.cost.owner_salary_expense,
          employer_payroll_tax |-> k.cost.employer_payroll_tax,
          owner_draw_now |-> k.cost.owner_draw_now, loan_payment_total |-> k.cost.loan_payment_total,
          total_revenue |-> r.total_revenue, total_opex_profit |-> total_opex_profit,
          op_profit |-> r.total_revenue - total_opex_profit,
          se_tax_this_month |-> x.se_tax_this_month,
          state_income_tax_this_month |-> x.state_income_tax_this_month,
          corp_tax_this_month |-> x.corp_tax_this_month,
          property_tax_this_month |-> p.property_tax_this_month,
          tax_payments_this_month |-> tax_payments_this_month,
          sales_tax_collected |-> p.sales_tax_collected, sales_tax_remitted |-> p.sales_tax_remitted,
          total_opex_cash |-> total_opex_cash,
          net_cash_flow |-> r.total_revenue - total_opex_cash + p.sales_tax_collected,
          op_profit_after_tax |->
              (r.total_revenue - total_opex_profit)
                - (x.se_tax_this_month + x.state_income_tax_this_month + x.corp_tax_this_month),
          cfads |-> r.total_revenue
                      - (total_opex_cash - k.cost.loan_payment_total - k.cost.owner_draw_now),
          \* the accumulators after the month
          se_ss_wage_base_used_ytd |-> t.se_ss_wage_base_used_ytd + x.ss_taxable_now,
          se_tax_payable_accum |-> p.se_tax_payable_accum,
          state_tax_payable_accum |-> p.state_tax_payable_accum,
          corp_tax_payable_accum |-> p.corp_tax_payable_accum,
          sales_tax_payable_accum |-> p.sales_tax_payable_accum ]

\* the accrued taxes of the month from the revenues r and the costs k
AccrueTaxes(c, t, r, k) ==
    IncomeTaxAccrual(c, r.total_revenue - (k.fixed_opex_profit + k.variable_opex),
                     SelfEmploymentTax(c, t, r.total_revenue - (k.fixed_opex_profit + k.variable_opex)))

AccrualTaxed(c, t, month, r, k, x) ==
    CashView(t, r, k, x, TaxRemittance(c, t, month, r.rev.revenue_clay, x))

AccrualCosted(c, t, month, r, k) == AccrualTaxed(c, t, month, r, k, AccrueTaxes(c, t, r, k))

AccrualOf(c, g, t, month, fixed_rent, owner_draw, f, r) ==
    AccrualCosted(c, t, month, r,
                  OperatingCosts(c, g, t, month, fixed_rent, owner_draw, r.rev.total_bags, f))

\* the revenues, costs, taxes and cash flow of the month (lines 1676-1900)
Accrual(c, g, t, mo, month, fixed_rent, owner_draw, ws, f) ==
    AccrualOf(c, g, t, month, fixed_rent, owner_draw, f, Revenues(c, t, mo, month, ws, f))

(***************************************************************************)
(* Capital purchases and loan draws of one month.  dyn is the dynamic      *)
(* equipment state of the trial (_dyn_KILN_COUNT, _dyn_STATIONS,           *)
(* _dyn_MAX_MEMBERS, _dyn_CLAY_COGS_MULT, _dyn_PUGMILL_MAINT,              *)
(* _dyn_SLAB_MAINT).                                                       *)
(***************************************************************************)
\* the equipment effects of a purchased item, by the words of its label
ApplyEffects(dyn, item) ==
    LET words == LabelWords(item.label)
        cnt == item.count
        d1 == IF "kiln" \in words THEN [dyn EXCEPT !.KILN_COUNT = @ + Max(1, cnt)] ELSE dyn
        d2 == IF "wheel" \in words /\ "wheels" \in DOMAIN d1.STATIONS
              THEN [d1 EXCEPT !.STATIONS.wheels.capacity = Max(@, Max(0, cnt))]
              ELSE d1
        d3 == IF "rack" \in words
              THEN [d2 EXCEPT !.MAX_MEMBERS = Max(@, 3 * Max(0, cnt))]
              ELSE d2
        d4 == IF "slab" \in words /\ "roll" \in words
              THEN LET hb == IF "handbuilding" \in DOMAIN d3.STATIONS
                             THEN [d3 EXCEPT !.STATIONS.handbuilding.capacity =
                                                Max(1, RoundHalfEven(@ * 12, 10))]
                             ELSE d3
                   IN  [hb EXCEPT !.SLAB_MAINT = @ + 10]
              ELSE d3
    IN  IF "pug" \in words
        THEN [d4 EXCEPT !.CLAY_COGS_MULT = 75, !.PUGMILL_MAINT = @ + 20]
        ELSE d4

\* the loop over the capex queue from item i on: an un-purchased item whose
\* month or member-count trigger holds is bought, takes effect and is marked
RECURSIVE RunCapexQueue(_, _, _, _, _, _)
RunCapexQueue(queue, i, dyn, draw, month, current_members) ==
    IF i > Len(queue) THEN [queue |-> queue, dyn |-> dyn, capex_draw |-> draw]
    ELSE LET it == queue[i]
             m_ok == it.month # None /\ month = it.month
             n_ok == it.member_threshold # None /\ current_members >= it.member_threshold
         IN  IF ~it.purchased /\ (m_ok \/ n_ok)
             THEN RunCapexQueue([queue EXCEPT ![i].purchased = TRUE], i + 1, ApplyEffects(dyn, it),
                                draw + it.unit_cost * it.count, month, current_members)
             ELSE RunCapexQueue(queue, i + 1, dyn, draw, month, current_members)

\* the draw on the staged working-capital facility when cash is below the
\* reserve floor
StagedOpexDraw(c, cash_balance, opex_remaining) ==
    LET rule == c.LOAN_STAGED_RULE_OPEX
        needed == rule.reserve_floor - cash_balance
        d1 == Max(needed, rule.min_draw)
        d2 == IF rule.max_draw \in {None, 0} THEN d1 ELSE Min(d1, rule.max_draw)
        draw_amt == Min(d2, opex_remaining)
    IN  IF cash_balance < rule.reserve_floor /\ opex_remaining > 0 /\ draw_amt > 0
        THEN draw_amt ELSE 0

\* mutant of BalanceStep: the principal part of the payment is added
BalanceStep_Added(bal, draw, pay, annual_rate) ==
    LET b == bal + draw
    IN  Max(0, b + Max(0, pay - MonthlyInterest(b, annual_rate)))

\* the running balance of a loan after a month: draws are added, then the
\* principal part of the payment is taken off
BalanceStep(bal, draw, pay, annual_rate) ==
    LET b == bal + draw
    IN  Max(0, b - Max(0, pay - MonthlyInterest(b, annual_rate)))

\* the state of a trial before its first month (lines 1075-1354), or the fact
\* that the staged-draw precomputation does not return
NewTrial(c, g, fixed_rent, owner_draw) ==
    LET sz == LoanSizing(c, fixed_rent, owner_draw)
        up504 == c.CAPEX_LOAN_MODE = "upfront" /\ sz.loan_504_principal > 0
        up7a == c.OPEX_LOAN_MODE = "upfront" /\ sz.loan_7a_principal > 0
        queue0 == BuildCapexQueue(c)
        lump == lump_capex_table(queue0, c.MONTHS, c.CAPEX_LUMP_WINDOW_MONTHS,
                                 c.LOAN_STAGED_RULE.draw_pct_of_purchase)
        tr == IF c.CAPEX_LOAN_MODE = "staged"
              THEN tranche_from_schedule(lump.eligible, c.LOAN_STAGED_RULE.min_tranche,
                                         c.LOAN_STAGED_RULE.max_tranche)
              ELSE [hangs |-> FALSE, draws |-> Zeros(c.MONTHS)]
        queue == [i \in 1..Len(queue0) |->
                    IF queue0[i].month # None /\ queue0[i].label \in DOMAIN lump.anchors
                    THEN [queue0[i] EXCEPT !.month = lump.anchors[queue0[i].label]]
                    ELSE queue0[i]]
    IN  [ hangs |-> tr.hangs,
          loan_504_principal |-> sz.loan_504_principal,
          loan_7a_principal |-> sz.loan_7a_principal,
          fees_cash_outflow |-> sz.fees_cash_outflow,
          loan_payment_504_ts |->
              IF up504 THEN build_loan_schedule(sz.loan_504_principal, c.LOAN_504_ANNUAL_RATE,
                                                c.LOAN_504_TERM_YEARS, c.IO_MONTHS_504, c.MONTHS)
              ELSE Zeros(c.MONTHS),
          loan_payment_7a_ts |->
              IF up7a THEN build_loan_schedule(sz.loan_7a_principal, c.LOAN_7A_ANNUAL_RATE,
                                               c.LOAN_7A_TERM_YEARS, c.IO_MONTHS_7A, c.MONTHS)
              ELSE Zeros(c.MONTHS),
          opex_remaining |-> c.LOAN_STAGED_RULE_OPEX.facility_limit,
          bal504 |-> IF up504 THEN sz.loan_504_principal ELSE 0,
          bal7a |-> IF up7a THEN sz.loan_7a_principal ELSE 0,
          cash_balance |-> 0, cumulative_op_profit |-> 0, cumulative_after_capex |-> 0,
          active_members |-> << >>,
          capex_queue |-> queue, capex_draws_ts |-> tr.draws,
          dyn |-> [ KILN_COUNT |-> 0, STATIONS |-> g.STATIONS, MAX_MEMBERS |-> g.MAX_MEMBERS,
                    CLAY_COGS_MULT |-> GlobalsGet(g, "CLAY_COGS_MULT", 100),
                    PUGMILL_MAINT |-> GlobalsGet(g, "PUGMILL_MAINT_COST_PER_MONTH", 0),
                    SLAB_MAINT |-> GlobalsGet(g, "SLAB_ROLLER_MAINT_COST_PER_MONTH", 0) ],
          remaining_pool |-> [community_studio |-> c.COMMUNITY_POOL, home_studio |-> c.HOME_POOL,
                              no_access |-> c.NO_ACCESS_POOL],
          cs_eligible |-> 0, insolvent_before_grant |-> FALSE,
          pending_class_conversions |-> Zeros(c.MONTHS + Max(0, c.CLASS_CONV_LAG_MO)),
          se_ss_wage_base_used_ytd |-> 0, se_tax_payable_accum |-> 0,
          state_tax_payable_accum |-> 0, corp_tax_payable_accum |-> 0,
          sales_tax_payable_accum |-> 0 ]

(***************************************************************************)
(* State.                                                                  *)
(***************************************************************************)
VARIABLES
    \* --- probe of the loan scheduler (SpecLoan) ---
    ls_pc,      \* "idle" | "built" | "added"
    ls_args,    \* the arguments of the calls
    ls_arr0,    \* the payment array before _add_staged_tranche_into_array
    ls_arr,     \* the payment array (mutated in place by the call)
    ls_sched,   \* the array build_loan_schedule returned
    \* --- probe of the configuration resolver (SpecCfg) ---
    rc_pc,      \* "idle" | "resolved"
    rc_user,    \* the user_cfg argument of resolve_cfg
    rc_merged,  \* the mapping resolve_cfg returned
    \* --- the simulation driver (Spec) ---
    pc,         \* position of the driver: "idle", "cell", "trial", "members",
                \* "finance", "return", "done", "raised", "hang" ("off" in the
                \* other specifications)
    cfg,        \* the name of the configuration every call of run_from_cfg is given
    call,       \* number of the current call of run_from_cfg
    G,          \* the module namespace (the names a run writes)
    merged,     \* the resolved configuration of the current call (those names)
    old,        \* what override_globals saved: the old values, the missing names
    MEMBERSHIP_SOFT_CAP,  \* the soft cap of the current call, in hundredths
    cell,       \* indices of the current (rent, owner draw, scenario) combination
    sim,        \* index of the current trial
    month,      \* index of the current month
    BASE,       \* the _BASE_* snapshot of the current combination
    trial,      \* the local state of the current trial
    mo,         \* the membership results of the current month
    fin,        \* the cash flows of the last month that was accounted
    rows,       \* the result rows of the current call
    results,    \* the result rows of the finished calls
    tape_members,  \* the random draws of the first call's membership steps
    tape_finance,  \* the random draws of the first call's accrual steps
    \* --- probe of the membership step's formulas (SpecFn) ---
    pf_pc,      \* "idle" | "damped" | "clipped"
    pf_in,      \* the inputs of the formula
    pf_out      \* the value it gave

loanVars == <<ls_pc, ls_args, ls_arr0, ls_arr, ls_sched>>
resolverVars == <<rc_pc, rc_user, rc_merged>>
simVars == <<pc, cfg, call, G, merged, old, MEMBERSHIP_SOFT_CAP, cell, sim, month, BASE, trial, mo, fin, rows, results, tape_members, tape_finance>>

fnVars == <<pf_pc, pf_in, pf_out>>

vars == <<loanVars, resolverVars, simVars, fnVars>>

(***************************************************************************)
(* The configurations the driver is run under.                             *)
(***************************************************************************)
CapexItem(label, unit_cost, count, at_month, member_threshold) ==
    [ enabled |-> TRUE, label |-> label, unit_cost |-> unit_cost, count |-> count,
      amount |-> None, month |-> at_month, member_threshold |-> member_threshold ]

\* two rent scenarios, racks bought in the first month and a pug mill bought
\* at the first member; run_from_cfg is called twice
CfgTwoCells ==
    [BaseParams EXCEPT
       !.calls = 2, !.RENT_SCENARIOS = <<1000, 1200>>,
       !.CAPEX_ITEMS = <<CapexItem("Wire racks", 100, 2, 0, None), CapexItem("Pug mill", 500, 1, None, 1)>>,
       !.NO_ACCESS_POOL = 4, !.BASELINE_RATE_NO_ACCESS = 1]

\* compartment joins from two pools with workshops and classes, four
\* onboardings a month at most
CfgRollback ==
    [BaseParams EXCEPT
       !.OVERRIDES = [MAX_MEMBERS |-> 20], !.MAX_ONBOARDINGS_PER_MONTH = 4,
       !.NO_ACCESS_POOL = 3, !.HOME_POOL = 3,
       !.BASELINE_RATE_NO_ACCESS = 1, !.BASELINE_RATE_HOME = 1,
       !.WORKSHOPS_ENABLED = TRUE, !.WORKSHOP_CONV_LAG_MO = 0,
       !.CLASSES_ENABLED = TRUE, !.CLASS_CONV_LAG_MO = 1]

\* the other join model: pool intents, baseline trickle and referrals, with
\* an unlock of community-studio prospects every month and two onboardings a
\* month at most
CfgTrickle ==
    [BaseParams EXCEPT
       !.OVERRIDES = [MAX_MEMBERS |-> 20], !.MAX_ONBOARDINGS_PER_MONTH = 2,
       !.JOIN_MODEL = "intent", !.BASELINE_JOIN_RATE = 1, !.REFERRAL_RATE_PER_MEMBER = 1,
       !.POOL_BASE_INTENT = [community_studio |-> 10, home_studio |-> 0, no_access |-> 4],
       !.NO_ACCESS_POOL = 1, !.COMMUNITY_POOL = 4, !.CLASS_TERM_MONTHS = 1,
       !.MARKET_POOLS_INFLOW = [community_studio |-> 0, home_studio |-> 1, no_access |-> 0]]

\* a profitable studio with taxes, an up-front working-capital loan, a kiln
\* bought on a staged loan in the third month, an owner draw and a grant;
\* members can leave
CfgCash ==
    [BaseParams EXCEPT
       !.MONTHS = 3, !.RENT_SCENARIOS = <<100>>, !.OWNER_DRAW_SCENARIOS = <<50>>,
       !.SCENARIO_CONFIGS = <<[name |-> "Grant", grant_amount |-> 500, grant_month |-> 1]>>,
       !.PRICE = 2000, !.NO_ACCESS_POOL = 2, !.BASELINE_RATE_NO_ACCESS = 1,
       !.ARCHETYPE_MONTHLY_CHURN = [a \in {"Hobbyist"} |-> 5],
       !.MEMBER_ARCHETYPES = [a \in {"Hobbyist"} |-> [prob |-> 100, clay_bags |-> {1, 2}]],
       !.RUNWAY_MONTHS = 1, !.LOAN_7A_TERM_YEARS = 1, !.LOAN_504_TERM_YEARS = 1,
       !.CAPEX_LOAN_MODE = "staged",
       !.CAPEX_ITEMS = <<CapexItem("Kiln 2", 1000, 1, 2, None)>>,
       !.MA_SALES_TAX_RATE = 625, !.SALES_TAX_REMIT_FREQUENCY_MONTHS = 2,
       !.MA_PERSONAL_INCOME_TAX_RATE = 500, !.SE_SOC_SEC_RATE = 1240, !.SE_MEDICARE_RATE = 290,
       !.ESTIMATED_TAX_REMIT_FREQUENCY_MONTHS = 2,
       !.PERSONAL_PROPERTY_TAX_ANNUAL = 120, !.PERSONAL_PROPERTY_TAX_BILL_MONTH = 2]

\* a studio without members that lives on a staged working-capital
\* facility, drawn when cash falls under the reserve floor
CfgFacility ==
    [BaseParams EXCEPT
       !.MONTHS = 3, !.RENT_SCENARIOS = <<100>>,
       !.LOAN_7A_TERM_YEARS = 1, !.LOAN_504_TERM_YEARS = 1,
       !.OPEX_LOAN_MODE = "staged",
       !.LOAN_STAGED_RULE_OPEX = [facility_limit |-> 6000, min_draw |-> 0, max_draw |-> 2500,
                                  reserve_floor |-> 1000],
       !.CAPEX_ITEMS = <<CapexItem("Wheels", 200, 1, 1, None)>>]

\* a permanent downturn that multiplies the join intent by 0, in the join
\* model with pool intents, a baseline trickle and referrals
CfgDownturn ==
    [BaseParams EXCEPT
       !.OVERRIDES = [MAX_MEMBERS |-> 20],
       !.DOWNTURN_PROB_PER_MONTH = 100, !.DOWNTURN_JOIN_MULT = 0,
       !.JOIN_MODEL = "intent", !.BASELINE_JOIN_RATE = 1, !.REFERRAL_RATE_PER_MEMBER = 1,
       !.NO_ACCESS_POOL = 2, !.HOME_POOL = 1]

\* no external market, in the join model with pool intents: empty pools, no
\* inflow, zero base intent; the baseline trickle and the referral rate are on
CfgEmptyIntent ==
    [BaseParams EXCEPT
       !.JOIN_MODEL = "intent", !.BASELINE_JOIN_RATE = 1, !.REFERRAL_RATE_PER_MEMBER = 1,
       !.POOL_BASE_INTENT = [community_studio |-> 0, home_studio |-> 0, no_access |-> 0]]

\* no external market, in the compartment join model
CfgEmptyCompartment ==
    [BaseParams EXCEPT
       !.REFERRAL_RATE_PER_MEMBER = 1,
       !.POOL_BASE_INTENT = [community_studio |-> 0, home_studio |-> 0, no_access |-> 0]]

\* an archetype without clay-bag choices: rng.choice(m["clay_bags"]) raises
\* in the first month that has a member
CfgNoBags ==
    [BaseParams EXCEPT
       !.MEMBER_ARCHETYPES = [a \in {"Hobbyist"} |-> [prob |-> 100, clay_bags |-> {}]],
       !.NO_ACCESS_POOL = 1, !.BASELINE_RATE_NO_ACCESS = 1]

\* a staged capital loan with a pug mill bought when the first member has
\* joined and wheels bought in the first month
CfgStaged ==
    [BaseParams EXCEPT
       !.CAPEX_LOAN_MODE = "staged", !.LOAN_504_TERM_YEARS = 1,
       !.CAPEX_ITEMS = <<CapexItem("Wheels", 200, 1, 0, None), CapexItem("Pug mill", 500, 1, None, 1)>>,
       !.NO_ACCESS_POOL = 1, !.BASELINE_RATE_NO_ACCESS = 1]

\* a C corporation with the members and prices of Cash, no loan and no grant
CfgCorp ==
    [BaseParams EXCEPT
       !.MONTHS = 3, !.RENT_SCENARIOS = <<100>>, !.OWNER_DRAW_SCENARIOS = <<50>>,
       !.PRICE = 2000, !.NO_ACCESS_POOL = 1, !.BASELINE_RATE_NO_ACCESS = 1,
       !.ENTITY_TYPE = "c_corp", !.ESTIMATED_TAX_REMIT_FREQUENCY_MONTHS = 2]

\* a sole proprietor living on workshops for thirteen months, with a
\* Social-Security wage base of a little more than three months' earnings
CfgWageBase ==
    [BaseParams EXCEPT
       !.MONTHS = 13, !.RENT_SCENARIOS = <<0>>,
       !.INSURANCE_COST = 0, !.GLAZE_COST_PER_MONTH = 0, !.HEATING_COST_WINTER = 0,
       !.HEATING_COST_SUMMER = 0, !.COST_PER_KWH = 0, !.MAINTENANCE_BASE_COST = 0,
       !.MARKETING_COST_BASE = 0,
       !.WORKSHOPS_ENABLED = TRUE, !.WORKSHOP_COST_PER_EVENT = 0, !.WORKSHOP_CONV_RATE = 0,
       !.SE_SOC_SEC_WAGE_BASE = 1000, !.SE_SOC_SEC_RATE = 1240, !.SE_MEDICARE_RATE = 290]

\* a studio of one member, who comes from the first workshop and never
\* churns, run for fifty-one months
CfgLongStay ==
    [BaseParams EXCEPT
       !.MONTHS = 51, !.OVERRIDES = [MAX_MEMBERS |-> 1],
       !.WORKSHOPS_ENABLED = TRUE, !.WORKSHOP_CONV_RATE = 25]

\* a manual membership curve of two members under a ceiling of one
CfgManual ==
    [BaseParams EXCEPT
       !.MONTHS = 3, !.OVERRIDES = [MAX_MEMBERS |-> 1],
       !.USE_MANUAL_MEMBERSHIP_CURVE = TRUE, !.MANUAL_MEMBERSHIP_CURVE = <<2, 2, 1>>]

\* a studio open two hours a week (a soft cap of 2.85 members) that buys a
\* slab roller in its first month and holds three members by a manual curve
CfgSlabRoller ==
    [BaseParams EXCEPT
       !.MONTHS = 2, !.OPEN_HOURS_PER_WEEK = 2,
       !.CAPEX_ITEMS = <<CapexItem("Slab roller", 100, 1, 0, None)>>,
       !.NO_ACCESS_POOL = 1, !.BASELINE_RATE_NO_ACCESS = 1,
       !.USE_MANUAL_MEMBERSHIP_CURVE = TRUE, !.MANUAL_MEMBERSHIP_CURVE = <<3, 3>>]

\* a staged capital loan with a minimum tranche, and wheels bought in the
\* first month for more than the minimum
CfgMinTranche ==
    [BaseParams EXCEPT
       !.CAPEX_LOAN_MODE = "staged",
       !.LOAN_STAGED_RULE = [draw_pct_of_purchase |-> 100, min_tranche |-> 100,
                             max_tranche |-> 150],
       !.CAPEX_ITEMS = <<CapexItem("Wheels", 200, 1, 0, None)>>]

\* a staged capital loan at 12% over one year with two tranches, for a kiln
\* in the first month and wheels in the third, run until both are repaid
CfgTwoTranches ==
    [BaseParams EXCEPT
       !.MONTHS = 16, !.CAPEX_LOAN_MODE = "staged",
       !.LOAN_504_ANNUAL_RATE = 1200, !.LOAN_504_TERM_YEARS = 1,
       !.CAPEX_ITEMS = <<CapexItem("Kiln 2", 12000, 1, 0, None),
                         CapexItem("Wheels", 12000, 1, 2, None)>>]

Configs ==
    {"TwoCells", "Rollback", "Trickle", "Cash", "Facility", "Downturn", "EmptyIntent",
     "EmptyCompartment", "NoBags", "Staged", "Corp", "WageBase", "LongStay", "Manual",
     "MinTranche", "TwoTranches", "SlabRoller"}

\* the configurations by name
ConfigNamed(name) ==
    CASE name = "TwoCells" -> CfgTwoCells
      [] name = "Rollback" -> CfgRollback
      [] name = "Trickle" -> CfgTrickle
      [] name = "Cash" -> CfgCash
      [] name = "Facility" -> CfgFacility
      [] name = "Downturn" -> CfgDownturn
      [] name = "EmptyIntent" -> CfgEmptyIntent
      [] name = "EmptyCompartment" -> CfgEmptyCompartment
      [] name = "NoBags" -> CfgNoBags
      [] name = "Staged" -> CfgStaged
      [] name = "Corp" -> CfgCorp
      [] name = "WageBase" -> CfgWageBase
      [] name = "LongStay" -> CfgLongStay
      [] name = "Manual" -> CfgManual
      [] name = "MinTranche" -> CfgMinTranche
      [] name = "TwoTranches" -> CfgTwoTranches
      [] name = "SlabRoller" -> CfgSlabRoller
      [] OTHER -> BaseParams

\* the configuration of the run
conf == ConfigNamed(cfg)

(***************************************************************************)
(* Each specification drives one group of variables; the other groups rest *)
(* in the states below.                                                    *)
(***************************************************************************)
\* the month results and cash flows before any month has run
NoMonth ==
    [ is_downturn |-> FALSE, class_students_this_month |-> 0, revenue_classes_gross |-> 0,
      classes_cost |-> 0, revenue_classes |-> 0, class_joins_now |-> 0,
      joins |-> 0, members_created |-> 0, departures |-> 0, net_adds |-> 0,
      manual_added |-> 0, overflow |-> 0, rb_no_access |-> 0, rb_home |-> 0, rb_cs |-> 0,
      candidate_joins |-> 0, capped_joins |-> 0, ws_joins |-> 0,
      organic_joins |-> 0, baseline_joins |-> 0, referral_joins |-> 0,
      take_no_access_total |-> 0, take_home_total |-> 0, take_cs_total |-> 0,
      sources |-> [k \in {} |-> 0] ]

NoCash ==
    [ cash_before |-> 0, total_revenue |-> 0, operating_costs |-> 0, loan_payments |-> 0,
      owner_draw_now |-> 0, property_tax |-> 0, tax_payments |-> 0,
      sales_tax_collected |-> 0, sales_tax_remitted |-> 0, grant_received |-> 0,
      capex_draw |-> 0, upfront_proceeds |-> 0, fees_paid |-> 0, staged_draws |-> 0,
      cash_balance |-> 0, sales_tax_cash |-> 0 ]

\* the driver's variables at rest, under a configuration c
SimAtRest(c) ==
    /\ cfg = c
    /\ call = 1
    /\ G = ModuleGlobals
    /\ merged = ModuleGlobals
    /\ old = [vals |-> ModuleGlobals, missing |-> {}]
    /\ MEMBERSHIP_SOFT_CAP = 0
    /\ cell = [ri |-> 1, oi |-> 1, si |-> 1]
    /\ sim = 0
    /\ month = 0
    /\ BASE = [STATIONS |-> ModuleGlobals.STATIONS, MAX_MEMBERS |-> ModuleGlobals.MAX_MEMBERS,
               CLAY_COGS |-> 100, PUG_MAINT |-> 0, SLAB_MAINT |-> 0]
    /\ trial = NewTrial(BaseParams, ModuleGlobals, 0, 0)
    /\ mo = NoMonth
    /\ fin = NoCash
    /\ rows = << >>
    /\ results = << >>
    /\ tape_members = << >>
    /\ tape_finance = << >>

SimIdle == pc = "off" /\ SimAtRest("none")

LoanIdle ==
    /\ ls_pc = "off"
    /\ ls_args = [principal |-> 0, annual_rate |-> 0, term_years |-> 0,
                  io_months |-> 0, total_months |-> 0, start_month |-> 0]
    /\ ls_arr0 = Zeros(0)
    /\ ls_arr = Zeros(0)
    /\ ls_sched = Zeros(0)

ResolverIdle ==
    /\ rc_pc = "off"
    /\ rc_user = [k \in {} |-> Scalar(0)]
    /\ rc_merged = [k \in {} |-> Scalar(0)]

FnIdle == pf_pc = "off" /\ pf_in = << >> /\ pf_out = << >>

(***************************************************************************)
(* Spec: run_from_cfg and the loops of _core_simulation_and_reports.       *)
(***************************************************************************)
fixed_rent == conf.RENT_SCENARIOS[cell.ri]
owner_draw == conf.OWNER_DRAW_SCENARIOS[cell.oi]
scen_cfg == conf.SCENARIO_CONFIGS[cell.si]

\* number of the row the current month produces, which is also the place of
\* its draws on the tapes
RowNo == Len(rows) + 1

\* a random draw: any value of its support in the first call; in a later call
\* of the same configuration and seed, the value the first call drew there
DrawMembers(support, name) == IF call = 1 THEN support ELSE {tape_members[RowNo][name]}
DrawFinance(support, name) == IF call = 1 THEN support ELSE {tape_finance[RowNo][name]}

\* run_from_cfg up to the first combination: resolve_cfg over the module's
\* current constants, override_globals, compute_membership_soft_cap
RunFromCfg ==
    /\ pc = "idle"
    /\ LET m == MergeCfg(G, conf.OVERRIDES)
       IN  /\ merged' = m
           /\ old' = [vals |-> G, missing |-> (DOMAIN m) \ (DOMAIN G)]
           /\ G' = m
           /\ MEMBERSHIP_SOFT_CAP' = compute_membership_soft_cap(conf, m.STATIONS)
    /\ rows' = << >>
    /\ cell' = [ri |-> 1, oi |-> 1, si |-> 1]
    /\ pc' = "cell"
    /\ UNCHANGED <<cfg, call, sim, month, BASE, trial, mo, fin, results, tape_members, tape_finance>>
    /\ UNCHANGED <<loanVars, resolverVars, fnVars>>

\* the head of a (rent, owner draw, scenario) combination: the _BASE_*
\* snapshot of the mutable globals
BeginCombination ==
    /\ pc = "cell"
    /\ BASE' = [ STATIONS |-> G.STATIONS, MAX_MEMBERS |-> G.MAX_MEMBERS,
                 CLAY_COGS |-> GlobalsGet(G, "CLAY_COGS_MULT", 100),
                 PUG_MAINT |-> GlobalsGet(G, "PUGMILL_MAINT_COST_PER_MONTH", 0),
                 SLAB_MAINT |-> GlobalsGet(G, "SLAB_ROLLER_MAINT_COST_PER_MONTH", 0) ]
    /\ sim' = 0
    /\ pc' = "trial"
    /\ UNCHANGED <<cfg, call, G, merged, old, MEMBERSHIP_SOFT_CAP, cell, month, trial, mo, fin, rows, results, tape_members, tape_finance>>
    /\ UNCHANGED <<loanVars, resolverVars, fnVars>>

\* the globals after the reset to the snapshot at the head of a trial
ResetToBase(g, base) ==
    [k \in (DOMAIN g) \cup {"CLAY_COGS_MULT", "PUGMILL_MAINT_COST_PER_MONTH", "SLAB_ROLLER_MAINT_COST_PER_MONTH"} |->
       CASE k = "STATIONS" -> base.STATIONS
         [] k = "MAX_MEMBERS" -> base.MAX_MEMBERS
         [] k = "CLAY_COGS_MULT" -> base.CLAY_COGS
         [] k = "PUGMILL_MAINT_COST_PER_MONTH" -> base.PUG_MAINT
         [] k = "SLAB_ROLLER_MAINT_COST_PER_MONTH" -> base.SLAB_MAINT
         [] OTHER -> g[k]]

\* the head of a trial: the globals are reset to the snapshot and the trial's
\* state is set up
BeginTrial ==
    /\ pc = "trial"
    /\ LET g1 == ResetToBase(G, BASE)
           t == NewTrial(conf, g1, fixed_rent, owner_draw)
       IN  /\ G' = g1
           /\ trial' = t
           /\ pc' = IF t.hangs THEN "hang" ELSE "members"
    /\ month' = 0
    /\ mo' = NoMonth
    /\ fin' = NoCash
    /\ UNCHANGED <<cfg, call, merged, old, MEMBERSHIP_SOFT_CAP, cell, sim, BASE, rows, results, tape_members, tape_finance>>
    /\ UNCHANGED <<loanVars, resolverVars, fnVars>>

\* the values rng.random() < DOWNTURN_PROB_PER_MONTH takes (percent)
DownturnSupport(c) ==
    IF c.DOWNTURN_PROB_PER_MONTH <= 0 THEN {FALSE}
    ELSE IF c.DOWNTURN_PROB_PER_MONTH >= 100 THEN {TRUE}
    ELSE BOOLEAN

\* the students of a class month: every cohort fills 0..CLASS_CAP_PER_COHORT
\* seats (the fill is a clipped normal draw)
SeatsSupport(c, m) ==
    IF is_class_month(c, m) THEN 0..(c.CLASS_COHORTS_PER_MONTH * c.CLASS_CAP_PER_COHORT) ELSE {0}

\* the beginner classes of a month: revenue, cost, the conversions scheduled
\* after the lag, and the conversions that land this month
ClassStep(c, m, seats, pending) ==
    LET on == is_class_month(c, m)
        gross == seats * c.CLASS_PRICE
        cost == IF on
                THEN seats * c.CLASS_COST_PER_STUDENT
                       + c.CLASS_COHORTS_PER_MONTH * c.CLASS_INSTR_RATE_PER_HR * c.CLASS_HOURS_PER_COHORT
                ELSE 0
        converts == RoundHalfEven(seats * c.CLASS_CONV_RATE, 100)
        target_m == m + c.CLASS_CONV_LAG_MO
        pending1 == IF on /\ converts > 0 THEN [pending EXCEPT ![target_m] = @ + converts] ELSE pending
    IN  [ class_students_this_month |-> seats,
          revenue_classes_gross |-> gross, classes_cost |-> cost,
          revenue_classes |-> IF on THEN Max(0, gross - cost) ELSE 0,
          class_joins_now |-> IF c.CLASSES_ENABLED THEN pending1[m] ELSE 0,
          pending |-> IF c.CLASSES_ENABLED THEN [pending1 EXCEPT ![m] = 0] ELSE pending1 ]

\* the archetypes rng.choice can return
ArchetypeSupport(c) == {a \in DOMAIN c.MEMBER_ARCHETYPES : c.MEMBER_ARCHETYPES[a].prob > 0}

\* the members of s at the positions outside drop, in order
RECURSIVE KeepAt(_, _, _)
KeepAt(s, drop, i) ==
    IF i > Len(s) THEN << >>
    ELSE (IF i \in drop THEN << >> ELSE <<s[i]>>) \o KeepAt(s, drop, i + 1)

\* the new members of a month
NewMembers(types, m, n_from_class, src) ==
    [i \in 1..Len(types) |->
       [type |-> types[i], start_month |-> m,
        src |-> IF src = "manual" THEN "manual" ELSE IF i <= n_from_class THEN "class" ELSE "other"]]

\* the manual membership curve applies in this month
ManualCurveOn(c, m) == c.USE_MANUAL_MEMBERSHIP_CURVE /\ m < Len(c.MANUAL_MEMBERSHIP_CURVE)

\* the membership figures of a month as the finance step and the row read
\* them: flow0 is the join flow before the onboarding cap, flow after it
MonthRecord(is_downturn, class, flow0, flow, ws_joins, joins, departures, manual_added) ==
    [ is_downturn |-> is_downturn,
      class_students_this_month |-> class.class_students_this_month,
      revenue_classes_gross |-> class.revenue_classes_gross,
      classes_cost |-> class.classes_cost,
      revenue_classes |-> class.revenue_classes,
      class_joins_now |-> flow.class_joins_now,
      joins |-> joins, members_created |-> Max(0, joins),
      departures |-> departures,
      net_adds |-> (joins + manual_added) - departures,
      manual_added |-> manual_added,
      overflow |-> flow.overflow, rb_no_access |-> flow.rb_no_access,
      rb_home |-> flow.rb_home, rb_cs |-> flow.rb_cs,
      candidate_joins |-> flow0.joins, capped_joins |-> flow.joins,
      ws_joins |-> ws_joins,
      organic_joins |-> flow.joins_no_access + flow.joins_home
                         + flow.joins_comm_studio,
      baseline_joins |-> flow.baseline_joins,
      referral_joins |-> flow.referral_joins,
      take_no_access_total |-> flow0.joins_no_access
          + flow0.bn_no_access + flow0.ref_no_access,
      take_home_total |-> flow0.joins_home + flow0.bn_home
          + flow0.ref_home,
      take_cs_total |-> flow0.joins_comm_studio + flow0.bn_cs
          + flow0.ref_cs,
      sources |-> [joins_no_access |-> flow.joins_no_access,
                   joins_home |-> flow.joins_home,
                   joins_comm_studio |-> flow.joins_comm_studio,
                   bn_no_access |-> flow.bn_no_access,
                   bn_home |-> flow.bn_home, bn_cs |-> flow.bn_cs,
                   ref_no_access |-> flow.ref_no_access,
                   ref_home |-> flow.ref_home,
                   ref_cs |-> flow.ref_cs] ]

\* a month with the station capacities live: the soft cap of the run with
\* the capacities it has after the purchases so far
SoftCapOfMonth_Live(soft_cap, stations) == compute_membership_soft_cap(conf, stations)

\* the soft cap a month's capacity damping reads: the local computed before
\* the loops (line 1036), whatever the stations have become since
SoftCapOfMonth(soft_cap, stations) == soft_cap

\* lines 1356-1674: downturn draw, classes, pool inflow and unlock, join
\* draws, referral and baseline allocation, onboarding cap, hard ceiling,
\* member creation, churn, manual curve
MonthMembership ==
    /\ pc = "members"
    /\ \E is_downturn \in DrawMembers(DownturnSupport(conf), "is_downturn"),
          seats \in DrawMembers(SeatsSupport(conf, month), "seats") :
      \E n0 \in {Len(trial.active_members)},
         class \in {ClassStep(conf, month, seats, trial.pending_class_conversions)},
         ru \in {ReplenishAndUnlock(conf, month, trial.remaining_pool, trial.cs_eligible)},
         soft_cap \in {SoftCapOfMonth(MEMBERSHIP_SOFT_CAP, G.STATIONS)},
         ws_joins \in {IF conf.WORKSHOPS_ENABLED
                       THEN apply_workshops(conf, conf.MONTHS).joins_from_workshops[month]
                       ELSE 0} :
        LET mp == IntentMultPositive(conf, month, n0, is_downturn, soft_cap)
            p_no == PoolIntentPositive(conf, "no_access", mp)
            p_home == PoolIntentPositive(conf, "home_studio", mp)
            p_cs == PoolIntentPositive(conf, "community_studio", mp)
            lam_ref == conf.REFERRAL_RATE_PER_MEMBER * n0 * conf.REFERRAL_CONV > 0
            lam_base == /\ conf.JOIN_MODEL # "compartment"
                        /\ conf.BASELINE_JOIN_RATE > 0 /\ soft_cap > 0
                        /\ ~CapacityDampingIsZero(conf, n0, soft_cap)
        IN  \E raw_no \in DrawMembers(BinomialSupport(ru.remaining_pool.no_access, p_no), "raw_no"),
               raw_home \in DrawMembers(BinomialSupport(ru.remaining_pool.home_studio, p_home), "raw_home"),
               raw_cs \in DrawMembers(BinomialSupport(ru.cs_eligible, p_cs), "raw_cs"),
               raw_ref \in DrawMembers(PoissonSupport(lam_ref), "raw_ref"),
               raw_base \in DrawMembers(PoissonSupport(lam_base), "raw_base") :
            \E flow0 \in {JoinFlow(conf, ru.remaining_pool, ru.cs_eligible, class.class_joins_now, ws_joins,
                                  draw_adopters(ru.remaining_pool.no_access, p_no, raw_no),
                                  draw_adopters(ru.remaining_pool.home_studio, p_home, raw_home),
                                  draw_adopters(ru.cs_eligible, p_cs, raw_cs), raw_ref, raw_base)} :
            \E flow \in {OnboardingCap(conf.MAX_ONBOARDINGS_PER_MONTH, flow0)} :
            \E joins \in {HardCeiling(flow.joins, G.MAX_MEMBERS, n0)} :
            \E types \in DrawMembers([1..Max(0, joins) -> ArchetypeSupport(conf)], "types") :
            \E members1 \in {trial.active_members \o NewMembers(types, month, flow.class_joins_now, "join")} :
                LET before == Len(members1)
                    may_leave == {i \in 1..before : ChurnProbPositive(conf, members1[i], is_downturn)}
                IN  \E leave \in DrawMembers(SUBSET may_leave, "leave") :
                    \E kept \in {KeepAt(members1, leave, 1)} :
                    LET cur_n == Len(kept)
                        target_n == IF ManualCurveOn(conf, month)
                                    THEN Max(0, conf.MANUAL_MEMBERSHIP_CURVE[month + 1]) ELSE cur_n
                        manual_added == Max(0, target_n - cur_n)
                        manual_removed == Max(0, cur_n - target_n)
                    IN  \E manual_types \in DrawMembers([1..manual_added -> ArchetypeSupport(conf)], "manual_types"),
                           drop_idx \in DrawMembers({d \in SUBSET (1..cur_n) : Cardinality(d) = manual_removed}, "drop_idx") :
                        LET members2 == KeepAt(kept, drop_idx, 1) \o NewMembers(manual_types, month, 0, "manual")
                            departures == (before - cur_n) + manual_removed
                        IN  /\ trial' = [trial EXCEPT
                                           !.se_ss_wage_base_used_ytd = IF month % 12 = 0 THEN 0 ELSE @,
                                           !.pending_class_conversions = class.pending,
                                           !.remaining_pool = flow.remaining_pool,
                                           !.cs_eligible = flow.cs_eligible,
                                           !.active_members = members2]
                            /\ mo' = MonthRecord(is_downturn, class, flow0, flow, ws_joins, joins, departures, manual_added)
                            /\ tape_members' =
                                 IF call = 1
                                 THEN Append(tape_members,
                                        [ is_downturn |-> is_downturn, seats |-> seats, raw_no |-> raw_no,
                                          raw_home |-> raw_home, raw_cs |-> raw_cs, raw_ref |-> raw_ref,
                                          raw_base |-> raw_base, types |-> types, leave |-> leave,
                                          manual_types |-> manual_types, drop_idx |-> drop_idx ])
                                 ELSE tape_members
    /\ pc' = "finance"
    /\ UNCHANGED <<cfg, call, G, merged, old, MEMBERSHIP_SOFT_CAP, cell, sim, month, BASE, fin, rows, results, tape_finance>>
    /\ UNCHANGED <<loanVars, resolverVars, fnVars>>

\* the combination after the current one in the nesting of the three loops,
\* or the current one when it is the last
NextCell ==
    IF cell.si < Len(conf.SCENARIO_CONFIGS) THEN [cell EXCEPT !.si = @ + 1]
    ELSE IF cell.oi < Len(conf.OWNER_DRAW_SCENARIOS) THEN [cell EXCEPT !.oi = @ + 1, !.si = 1]
    ELSE IF cell.ri < Len(conf.RENT_SCENARIOS) THEN [ri |-> cell.ri + 1, oi |-> 1, si |-> 1]
    ELSE cell

\* the values int(rng.binomial(DESIGNATED_STUDIO_COUNT, occupancy)) takes
StudioSupport(c) ==
    IF c.DESIGNATED_STUDIO_COUNT > 0 /\ c.DESIGNATED_STUDIO_BASE_OCCUPANCY > 0
    THEN 0..c.DESIGNATED_STUDIO_COUNT ELSE {0}

\* the bags of clay the members buy: rng.choice(m["clay_bags"]) per member
BagsSupport(c, members) ==
    {b \in [1..Len(members) -> UNION {c.MEMBER_ARCHETYPES[a].clay_bags : a \in DOMAIN c.MEMBER_ARCHETYPES}] :
       \A i \in 1..Len(members) : b[i] \in c.MEMBER_ARCHETYPES[members[i].type].clay_bags}

\* the events of a month: a clipped Poisson count, and per event the
\* attendees and the mug cost (an end of its range)
EventsSupport(c, m) ==
    IF ~c.EVENTS_ENABLED THEN {<< >>}
    ELSE LET lam_positive == c.BASE_EVENTS_PER_MONTH_LAMBDA * SEASONALITY_WEIGHTS_NORM[m % 12] > 0
             counts == {Min(Max(k, 0), c.EVENTS_MAX_PER_MONTH) : k \in PoissonSupport(lam_positive)}
             one == [attendees : c.ATTENDEES_PER_EVENT_RANGE,
                     mug_cost : {c.EVENT_MUG_COST_RANGE[1], c.EVENT_MUG_COST_RANGE[2]}]
         IN  UNION {[1..k -> one] : k \in counts}

\* the values rng.normal(0, MAINTENANCE_RANDOM_STD) takes: one below and one
\* above the mean stand for the two signs
MaintNoiseSupport(c) ==
    IF c.MAINTENANCE_RANDOM_STD = 0 THEN {0}
    ELSE {0 - c.MAINTENANCE_RANDOM_STD, c.MAINTENANCE_RANDOM_STD}

\* the position of the driver after a month
AfterMonth ==
    IF month + 1 < conf.MONTHS THEN "members"
    ELSE IF sim + 1 < conf.N_SIMULATIONS THEN "trial"
    ELSE IF NextCell # cell THEN "cell"
    ELSE "return"

\* the capital purchases of the month (lines 1925-1966); nothing happens
\* when the trial has no capex queue
CapexPurchases(t, m) ==
    IF Len(t.capex_queue) > 0
    THEN RunCapexQueue(t.capex_queue, 1, t.dyn, 0, m, Len(t.active_members))
    ELSE [queue |-> t.capex_queue, dyn |-> t.dyn, capex_draw |-> 0]

\* the cash before the month's net cash flow (lines 1905-2015): month-0
\* proceeds and fees, the purchases rc, the staged tranche of the purchases
\* and the draw on the staged working-capital facility, each with its
\* payment schedule
LoanDraws(c, t, m, rc) ==
    LET has_queue == Len(t.capex_queue) > 0
        upfront_proceeds ==
            IF m = 0
            THEN (IF c.CAPEX_LOAN_MODE = "upfront" /\ t.loan_504_principal > 0
                  THEN t.loan_504_principal ELSE 0)
                   + (IF c.OPEX_LOAN_MODE = "upfront" /\ t.loan_7a_principal > 0
                      THEN t.loan_7a_principal ELSE 0)
            ELSE 0
        fees_paid == IF m = 0 /\ t.fees_cash_outflow > 0 THEN t.fees_cash_outflow ELSE 0
        loan_tranche_draw_capex ==
            IF has_queue /\ c.CAPEX_LOAN_MODE = "staged" THEN t.capex_draws_ts[m] ELSE 0
        cash3 == t.cash_balance + upfront_proceeds - fees_paid - rc.capex_draw + loan_tranche_draw_capex
        loan_tranche_draw_opex ==
            IF has_queue /\ c.OPEX_LOAN_MODE = "staged"
            THEN StagedOpexDraw(c, cash3, t.opex_remaining) ELSE 0
    IN  [ upfront_proceeds |-> upfront_proceeds, fees_paid |-> fees_paid,
          capex_draw |-> rc.capex_draw, queue |-> rc.queue, dyn |-> rc.dyn,
          written_back |-> has_queue,
          loan_tranche_draw_capex |-> loan_tranche_draw_capex,
          loan_tranche_draw_opex |-> loan_tranche_draw_opex,
          loan_payment_504_ts |->
              IF has_queue /\ c.CAPEX_LOAN_MODE = "staged"
              THEN add_staged_tranche_into_array(t.loan_payment_504_ts, m, loan_tranche_draw_capex,
                     c.LOAN_504_ANNUAL_RATE, c.LOAN_504_TERM_YEARS, c.IO_MONTHS_504, c.MONTHS)
              ELSE t.loan_payment_504_ts,
          loan_payment_7a_ts |->
              IF loan_tranche_draw_opex > 0
              THEN add_staged_tranche_into_array(t.loan_payment_7a_ts, m, loan_tranche_draw_opex,
                     c.LOAN_7A_ANNUAL_RATE, c.LOAN_7A_TERM_YEARS, c.IO_MONTHS_7A, c.MONTHS)
              ELSE t.loan_payment_7a_ts,
          cash_balance |-> cash3 + loan_tranche_draw_opex ]

\* mutant of InsolventBeforeGrant: the flag is the month's condition alone
InsolventBeforeGrant_NoLatch(flag, grant_month, m, cash_balance) ==
    (grant_month = None \/ m < grant_month) /\ cash_balance < 0

\* insolvent_before_grant after the month: set when the cash balance is
\* negative before the grant month (or there is no grant), never cleared
InsolventBeforeGrant(flag, grant_month, m, cash_balance) ==
    \/ flag
    \/ (grant_month = None \/ m < grant_month) /\ cash_balance < 0

\* the end of the month (lines 2024-2070): the net cash flow, the insolvency
\* latch, the grant, the running loan balances; a is the accrual of the
\* month, d its purchases and draws
MonthClose(c, t, scen, m, a, d) ==
    LET cash5 == d.cash_balance + a.net_cash_flow
        grant_received ==
            IF scen.grant_month # None /\ m = scen.grant_month THEN scen.grant_amount ELSE 0
    IN  [ insolvent_before_grant |->
              InsolventBeforeGrant(t.insolvent_before_grant, scen.grant_month, m, cash5),
          grant_received |-> grant_received,
          cash_balance |-> cash5 + grant_received,
          bal504 |-> BalanceStep(t.bal504, d.loan_tranche_draw_capex, d.loan_payment_504_ts[m],
                                 c.LOAN_504_ANNUAL_RATE),
          bal7a |-> BalanceStep(t.bal7a, d.loan_tranche_draw_opex, d.loan_payment_7a_ts[m],
                                c.LOAN_7A_ANNUAL_RATE) ]

\* the result row of the month (lines 2073-2150)
ResultRow(t, scen, m, a, d, e, ws) ==
    [ simulation_id |-> sim, scenario |-> scen.name, rent |-> fixed_rent,
      owner_draw |-> owner_draw, month |-> m + 1,
      active_members |-> Len(t.active_members), joins |-> mo.joins,
      departures |-> mo.departures, net_adds |-> mo.net_adds,
      cash_balance |-> e.cash_balance, net_cash_flow |-> a.net_cash_flow,
      cumulative_op_profit |-> t.cumulative_op_profit + a.op_profit,
      cumulative_profit_after_capex |-> t.cumulative_after_capex - d.capex_draw + a.op_profit,
      revenue_membership |-> a.revenue_membership, revenue_firing |-> a.revenue_firing,
      revenue_clay |-> a.revenue_clay, revenue_events |-> a.revenue_events,
      revenue_workshops_net |-> ws.workshop_revenue[m],
      revenue_designated_studios |-> a.revenue_designated_studios,
      grant_received |-> e.grant_received, insolvent_before_grant |-> e.insolvent_before_grant,
      is_downturn |-> mo.is_downturn,
      loan_payment_504 |-> d.loan_payment_504_ts[m], loan_payment_7a |-> d.loan_payment_7a_ts[m],
      loan_principal_504 |-> t.loan_504_principal, loan_principal_7a |-> t.loan_7a_principal,
      fees_cash_outflow |-> t.fees_cash_outflow,
      capex_draw |-> d.capex_draw,
      loan_tranche_draw_capex |-> d.loan_tranche_draw_capex,
      loan_tranche_draw_opex |-> d.loan_tranche_draw_opex,
      loan_balance_504 |-> e.bal504, loan_balance_7a |-> e.bal7a,
      staff_cost |-> a.staff_cost, maintenance_cost |-> a.maintenance_cost,
      marketing_cost |-> a.marketing_cost,
      op_profit_after_tax |-> a.op_profit_after_tax,
      sales_tax_collected |-> a.sales_tax_collected, sales_tax_remitted |-> a.sales_tax_remitted,
      se_tax_accrued |-> a.se_tax_this_month,
      state_income_tax_accrued |-> a.state_income_tax_this_month,
      corp_tax_accrued |-> a.corp_tax_this_month,
      tax_payments_made |-> a.tax_payments_this_month,
      property_tax |-> a.property_tax_this_month,
      owner_salary_expense |-> a.owner_salary_expense,
      employer_payroll_tax |-> a.employer_payroll_tax,
      owner_draw_paid |-> a.owner_draw_now,
      events_this_month |-> a.events_this_month,
      revenue_classes_gross |-> mo.revenue_classes_gross,
      classes_cost |-> mo.classes_cost, revenue_classes |-> mo.revenue_classes,
      class_students |-> mo.class_students_this_month, cfads |-> a.cfads ]

\* what the sales tax of the month adds to cash (lines 1864-1876): the part of
\* the net cash flow that is neither revenue nor a cost, a loan payment, the
\* owner draw, the property tax or an income-tax remittance
SalesTaxCashEffect(a) ==
    a.net_cash_flow
      - (a.total_revenue
           - (a.total_opex_profit + a.loan_payment_total + a.owner_draw_now
                + a.property_tax_this_month
                + (a.tax_payments_this_month - a.sales_tax_remitted)))

\* the state after the month: a is the accrual, d the purchases and draws,
\* e the close of the month
FinanceCommit(f, a, d, e) ==
    /\ trial' = [trial EXCEPT
                   !.cash_balance = e.cash_balance,
                   !.cumulative_op_profit = @ + a.op_profit,
                   !.cumulative_after_capex = @ - d.capex_draw + a.op_profit,
                   !.capex_queue = d.queue, !.dyn = d.dyn,
                   !.loan_payment_504_ts = d.loan_payment_504_ts,
                   !.loan_payment_7a_ts = d.loan_payment_7a_ts,
                   !.opex_remaining = @ - d.loan_tranche_draw_opex,
                   !.bal504 = e.bal504, !.bal7a = e.bal7a,
                   !.insolvent_before_grant = e.insolvent_before_grant,
                   !.se_ss_wage_base_used_ytd = a.se_ss_wage_base_used_ytd,
                   !.se_tax_payable_accum = a.se_tax_payable_accum,
                   !.state_tax_payable_accum = a.state_tax_payable_accum,
                   !.corp_tax_payable_accum = a.corp_tax_payable_accum,
                   !.sales_tax_payable_accum = a.sales_tax_payable_accum]
    \* lines 2017-2022: the equipment state is written back to the globals
    /\ G' = IF d.written_back
            THEN [G EXCEPT !.STATIONS = d.dyn.STATIONS,
                           !.MAX_MEMBERS = d.dyn.MAX_MEMBERS,
                           !.CLAY_COGS_MULT = d.dyn.CLAY_COGS_MULT,
                           !.PUGMILL_MAINT_COST_PER_MONTH = d.dyn.PUGMILL_MAINT,
                           !.SLAB_ROLLER_MAINT_COST_PER_MONTH = d.dyn.SLAB_MAINT]
            ELSE G
    /\ fin' = [ cash_before |-> trial.cash_balance, total_revenue |-> a.total_revenue,
                operating_costs |-> a.total_opex_profit, loan_payments |-> a.loan_payment_total,
                owner_draw_now |-> a.owner_draw_now, property_tax |-> a.property_tax_this_month,
                tax_payments |-> a.tax_payments_this_month,
                sales_tax_collected |-> a.sales_tax_collected,
                sales_tax_remitted |-> a.sales_tax_remitted,
                grant_received |-> e.grant_received, capex_draw |-> d.capex_draw,
                upfront_proceeds |-> d.upfront_proceeds, fees_paid |-> d.fees_paid,
                staged_draws |-> d.loan_tranche_draw_capex + d.loan_tranche_draw_opex,
                cash_balance |-> e.cash_balance,
                \* the sales tax's share of the trial's cash so far
                sales_tax_cash |-> fin.sales_tax_cash + SalesTaxCashEffect(a) ]
    /\ rows' = Append(rows, ResultRow(trial, scen_cfg, month, a, d, e, apply_workshops(conf, conf.MONTHS)))
    /\ tape_finance' = IF call = 1 THEN Append(tape_finance, f) ELSE tape_finance

FinanceClose(f, a, d) == FinanceCommit(f, a, d, MonthClose(conf, trial, scen_cfg, month, a, d))

\* lines 1676-2150: accrual, month-0 proceeds and fees, capital purchases,
\* staged draws, write-back of the equipment state, cash, insolvency, grant,
\* running loan balances, the result row
MonthFinance ==
    /\ pc = "finance"
    /\ \E ds_occupied \in DrawFinance(StudioSupport(conf), "ds_occupied"),
          bags \in DrawFinance(BagsSupport(conf, trial.active_members), "bags"),
          events \in DrawFinance(EventsSupport(conf, month), "events"),
          maint_noise \in DrawFinance(MaintNoiseSupport(conf), "maint_noise") :
        FinanceClose([ds_occupied |-> ds_occupied, bags |-> bags, events |-> events,
                      maint_noise |-> maint_noise],
                     Accrual(conf, G, trial, mo, month, fixed_rent, owner_draw,
                             apply_workshops(conf, conf.MONTHS),
                             [ds_occupied |-> ds_occupied, bags |-> bags, events |-> events,
                              maint_noise |-> maint_noise]),
                     LoanDraws(conf, trial, month, CapexPurchases(trial, month)))
    /\ pc' = AfterMonth
    /\ month' = IF AfterMonth = "members" THEN month + 1 ELSE month
    /\ sim' = IF AfterMonth = "trial" THEN sim + 1 ELSE sim
    /\ cell' = IF AfterMonth = "cell" THEN NextCell ELSE cell
    /\ UNCHANGED <<cfg, call, merged, old, MEMBERSHIP_SOFT_CAP, BASE, mo, results, tape_members>>
    /\ UNCHANGED <<loanVars, resolverVars, fnVars>>

\* the end of run_from_cfg: override_globals restores the names it saved
\* (and removes those that were missing), the rows are returned
Return ==
    /\ pc = "return"
    /\ G' = [k \in (DOMAIN G) \ old.missing |->
               IF k \in DOMAIN old.vals THEN old.vals[k] ELSE G[k]]
    /\ results' = Append(results, rows)
    /\ IF call < conf.calls
       THEN call' = call + 1 /\ pc' = "idle"
       ELSE call' = call /\ pc' = "done"
    /\ UNCHANGED <<cfg, merged, old, MEMBERSHIP_SOFT_CAP, cell, sim, month, BASE, trial, mo, fin, rows, tape_members, tape_finance>>
    /\ UNCHANGED <<loanVars, resolverVars, fnVars>>

\* rng.choice(m["clay_bags"]) raises ValueError for a member whose archetype
\* has no clay-bag choices
ClayChoiceRaises(c, members) ==
    \E i \in 1..Len(members) : c.MEMBER_ARCHETYPES[members[i].type].clay_bags = {}

\* mutant of Raise: the exception is swallowed and the rows collected so far
\* are returned
Raise_Swallowed ==
    /\ pc = "finance"
    /\ ClayChoiceRaises(conf, trial.active_members)
    /\ G' = [k \in (DOMAIN G) \ old.missing |->
               IF k \in DOMAIN old.vals THEN old.vals[k] ELSE G[k]]
    /\ results' = Append(results, rows)
    /\ pc' = "done"
    /\ UNCHANGED <<cfg, call, merged, old, MEMBERSHIP_SOFT_CAP, cell, sim, month, BASE, trial, mo, fin, rows, tape_members, tape_finance>>
    /\ UNCHANGED <<loanVars, resolverVars, fnVars>>

\* an exception in the accrual of a month: it leaves the loops and
\* _core_simulation_and_reports, override_globals restores the names it saved
\* on the way out, and run_from_cfg raises; rows (a local list) stays as the
\* exception left it and nothing is returned
Raise ==
    /\ pc = "finance"
    /\ ClayChoiceRaises(conf, trial.active_members)
    /\ G' = [k \in (DOMAIN G) \ old.missing |->
               IF k \in DOMAIN old.vals THEN old.vals[k] ELSE G[k]]
    /\ pc' = "raised"
    /\ UNCHANGED <<cfg, call, merged, old, MEMBERSHIP_SOFT_CAP, cell, sim, month, BASE, trial, mo, fin, rows, results, tape_members, tape_finance>>
    /\ UNCHANGED <<loanVars, resolverVars, fnVars>>

Init ==
    /\ pc = "idle"
    /\ \E c \in Configs : SimAtRest(c)
    /\ LoanIdle
    /\ ResolverIdle
    /\ FnIdle

Next ==
    \/ RunFromCfg
    \/ BeginCombination
    \/ BeginTrial
    \/ MonthMembership
    \/ MonthFinance
    \/ Raise
    \/ Return

Spec == Init /\ [][Next]_vars

(***************************************************************************)
(* SpecCfg: resolve_cfg applied to bounded overrides.                      *)
(***************************************************************************)
\* the values an override supplies for a key: a scalar, or a dict
OverrideValues(k) ==
    {Scalar(5)} \cup
    (IF k = "MONTHS" THEN {Scalar(12)}
     ELSE {Dict([community_studio |-> 7, home_studio |-> 7, no_access |-> 7])})

OverrideKeys == {"MONTHS", "POOL_BASE_INTENT", "MARKET_POOLS_INFLOW", "STATIONS", "NEW_KEY"}

\* every user_cfg over OverrideKeys (the empty one included)
UserCfgs ==
    UNION {
      {f \in [K -> UNION {OverrideValues(k) : k \in K}] : \A k \in K : f[k] \in OverrideValues(k)}
      : K \in SUBSET OverrideKeys}

InitCfg ==
    /\ rc_pc = "idle"
    /\ rc_user \in UserCfgs
    /\ rc_merged = [k \in {} |-> Scalar(0)]
    /\ LoanIdle
    /\ SimIdle
    /\ FnIdle

\* merged = resolve_cfg(cfg)
CallResolveCfg ==
    /\ rc_pc = "idle"
    /\ rc_merged' = resolve_cfg(get_default_cfg, rc_user)
    /\ rc_pc' = "resolved"
    /\ UNCHANGED rc_user
    /\ UNCHANGED <<loanVars, simVars, fnVars>>

NextCfg == CallResolveCfg

SpecCfg == InitCfg /\ [][NextCfg]_vars

(***************************************************************************)
(* SpecLoan: the loan scheduler applied to bounded inputs.                 *)
(***************************************************************************)
LoanPrincipals == {-100, 0, 1200, 2400}
LoanRates == {0, 1200}
LoanTermYears == {0, 1}
LoanIoMonths == {-1, 0, 3, 12, 13}
LoanTotalMonths == {0, 2, MaxTotalMonths - 1, MaxTotalMonths}
LoanStartMonths == {0, 1, MaxTotalMonths - 2, MaxTotalMonths}

\* two payment arrays of length n that a tranche can be added into
LoanArrays(n) == {Zeros(n), [m \in 0..(n - 1) |-> 10 * (m + 1)]}

InitLoan ==
    /\ ls_pc = "idle"
    /\ ls_args \in [principal : LoanPrincipals, annual_rate : LoanRates,
                    term_years : LoanTermYears, io_months : LoanIoMonths,
                    total_months : LoanTotalMonths, start_month : LoanStartMonths]
    /\ ls_arr0 \in LoanArrays(ls_args.total_months)
    /\ ls_arr = ls_arr0
    /\ ls_sched = Zeros(0)
    /\ ResolverIdle
    /\ SimIdle
    /\ FnIdle

\* sched = build_loan_schedule(principal, annual_rate, amort_years, io_months, total_months)
CallBuildLoanSchedule ==
    /\ ls_pc = "idle"
    /\ ls_sched' = build_loan_schedule(ls_args.principal, ls_args.annual_rate,
                       ls_args.term_years, ls_args.io_months, ls_args.total_months)
    /\ ls_pc' = "built"
    /\ UNCHANGED <<ls_args, ls_arr0, ls_arr>>
    /\ UNCHANGED <<resolverVars, simVars, fnVars>>

\* _add_staged_tranche_into_array(arr, start_month, principal, ...)
CallAddStagedTranche ==
    /\ ls_pc = "built"
    /\ ls_arr' = add_staged_tranche_into_array(ls_arr, ls_args.start_month,
                     ls_args.principal, ls_args.annual_rate, ls_args.term_years,
                     ls_args.io_months, ls_args.total_months)
    /\ ls_pc' = "added"
    /\ UNCHANGED <<ls_args, ls_arr0, ls_sched>>
    /\ UNCHANGED <<resolverVars, simVars, fnVars>>

NextLoan == CallBuildLoanSchedule \/ CallAddStagedTranche

SpecLoan == InitLoan /\ [][NextLoan]_vars

(***************************************************************************)
(* SpecFn: formulas of the membership step applied to bounded inputs.      *)
(***************************************************************************)
\* soft caps in hundredths of a member: none, half a member, one, two and a
\* half, three
DampSoftCaps == {0, 50, 100, 250, 300}

DampInputs ==
    [fn : {"capacity_damping"}, n : 0..MaxDampMembers, soft_cap : DampSoftCaps,
     beta : 1..MaxBeta]

\* base churn from a negative value to 60% a month; tenures of the three
\* tiers; the multipliers from 0 to their caps
ChurnInputs ==
    [fn : {"p_leave"}, base : {0 - 100, 0, 400, 6000}, tenure_mo : {0, 3, 7},
     churn_mult : {0, 100, 300}, price_mult_churn : {25, 100, 400},
     crowding : {100, 250}, month : {0, 3, 5}]

InitFn ==
    /\ pf_pc = "idle"
    /\ pf_in \in DampInputs \cup ChurnInputs
    /\ pf_out = << >>
    /\ LoanIdle
    /\ ResolverIdle
    /\ SimIdle

\* capacity_damping of lines 1406-1407 (and 1492-1493)
CallCapacityDamping ==
    /\ pf_pc = "idle"
    /\ pf_in.fn = "capacity_damping"
    /\ pf_out' = capacity_damping(pf_in.n, pf_in.soft_cap, pf_in.beta)
    /\ pf_pc' = "damped"
    /\ UNCHANGED pf_in
    /\ UNCHANGED <<loanVars, resolverVars, simVars>>

\* p_leave of lines 1623-1628
CallLeaveProb ==
    /\ pf_pc = "idle"
    /\ pf_in.fn = "p_leave"
    /\ pf_out' = p_leave(pf_in.base, pf_in.tenure_mo, pf_in.churn_mult,
                         pf_in.price_mult_churn, pf_in.crowding, pf_in.month)
    /\ pf_pc' = "clipped"
    /\ UNCHANGED pf_in
    /\ UNCHANGED <<loanVars, resolverVars, simVars>>

NextFn == CallCapacityDamping \/ CallLeaveProb

SpecFn == InitFn /\ [][NextFn]_vars

(***************************************************************************)
(* Claims about the simulation driver.                                     *)
(***************************************************************************)
\* the capex queue of the current trial has no purchased item
NonePurchased == \A i \in 1..Len(trial.capex_queue) : ~trial.capex_queue[i].purchased

\* C1: at the start of every trial (right after its set-up, before its first
\* month) MAX_MEMBERS, CLAY_COGS_MULT, the pug-mill and slab-roller
\* maintenance costs and the stations equal the values of the resolved
\* configuration (1.0 and 0 for the names the configuration does not carry),
\* and no capex item is purchased
C1_TrialStartsClean ==
    (pc = "members" /\ month = 0) =>
        /\ G.MAX_MEMBERS = merged.MAX_MEMBERS
        /\ G.STATIONS = merged.STATIONS
        /\ G.CLAY_COGS_MULT = GlobalsGet(merged, "CLAY_COGS_MULT", 100)
        /\ G.PUGMILL_MAINT_COST_PER_MONTH = GlobalsGet(merged, "PUGMILL_MAINT_COST_PER_MONTH", 0)
        /\ G.SLAB_ROLLER_MAINT_COST_PER_MONTH = GlobalsGet(merged, "SLAB_ROLLER_MAINT_COST_PER_MONTH", 0)
        /\ NonePurchased

\* C2: the second of two calls of run_from_cfg with the same configuration
\* and the same random draws returns the rows the first call returned
C2_RerunReproducesRows == Len(results) >= 2 => results[2] = results[1]

\* C3: the cash balance after a month is the balance before it, plus the
\* revenue, minus the operating costs, both loan payments, the owner draw and
\* the tax remittances paid in the month (property tax, income taxes, sales
\* tax), plus the grant, minus the capital purchases, plus the up-front
\* principal of the first month and the staged draws
C3_CashReconciles ==
    fin.cash_balance =
        fin.cash_before + fin.total_revenue
          - (fin.operating_costs + fin.loan_payments + fin.owner_draw_now
               + fin.property_tax + fin.tax_payments)
          + fin.grant_received - fin.capex_draw
          + (fin.upfront_proceeds + fin.staged_draws)

\* C4: no prospect pool (no-access, home-studio, community-studio, eligible
\* community-studio) is ever negative
C4_PoolsNonNegative ==
    /\ \A k \in DOMAIN trial.remaining_pool : trial.remaining_pool[k] >= 0
    /\ trial.cs_eligible >= 0

\* C5: with MAX_ONBOARDINGS_PER_MONTH set, neither the members a month's join
\* realization creates nor the joins of any row exceed it
C5_OnboardingCapHolds ==
    conf.MAX_ONBOARDINGS_PER_MONTH # None =>
        /\ mo.members_created <= conf.MAX_ONBOARDINGS_PER_MONTH
        /\ mo.joins <= conf.MAX_ONBOARDINGS_PER_MONTH
        /\ \A i \in 1..Len(rows) : rows[i].joins <= conf.MAX_ONBOARDINGS_PER_MONTH

\* a month whose joins went over the onboarding cap, were rolled back into
\* the pools, and whose join realization created exactly the cap
C5_Witness ==
    /\ pc = "finance"
    /\ conf.MAX_ONBOARDINGS_PER_MONTH # None
    /\ mo.overflow > 0
    /\ mo.members_created = conf.MAX_ONBOARDINGS_PER_MONTH

\* C6: without a manual membership curve the active members never exceed
\* MAX_MEMBERS as it stands: after the join realization of a month, through
\* the month, and in the row the month reports
C6_HardCeilingHolds ==
    ~conf.USE_MANUAL_MEMBERSHIP_CURVE =>
        /\ pc \in {"members", "finance"} => Len(trial.active_members) <= G.MAX_MEMBERS
        /\ (rows # << >> /\ (pc \in {"trial", "cell", "return"} \/ (pc = "members" /\ month > 0)))
             => rows[Len(rows)].active_members <= G.MAX_MEMBERS

\* a first month in which all four no-access prospects were drawn and only
\* three became members, the ceiling being three
C6_Witness ==
    /\ pc = "finance" /\ month = 0
    /\ ~conf.USE_MANUAL_MEMBERSHIP_CURVE
    /\ conf.NO_ACCESS_POOL > G.MAX_MEMBERS
    /\ trial.remaining_pool.no_access = 0
    /\ mo.members_created = G.MAX_MEMBERS
    /\ Len(trial.active_members) = G.MAX_MEMBERS

\* rows i - 1 and i are successive months of one trial
SameTrial(i) == i > 1 /\ rows[i].month = rows[i - 1].month + 1

\* C7: the reported balance of each loan is never negative, and it is larger
\* than in the month before only if a tranche of that loan was drawn in the
\* month
C7_LoanBalanceShape ==
    \A i \in 1..Len(rows) :
        /\ rows[i].loan_balance_504 >= 0
        /\ rows[i].loan_balance_7a >= 0
        /\ SameTrial(i) =>
             /\ rows[i].loan_balance_504 > rows[i - 1].loan_balance_504
                  => rows[i].loan_tranche_draw_capex > 0
             /\ rows[i].loan_balance_7a > rows[i - 1].loan_balance_7a
                  => rows[i].loan_tranche_draw_opex > 0

\* a trial in which one loan's balance went down by a payment and a loan's
\* balance went up with a tranche
C7_Witness ==
    /\ \E i \in 1..Len(rows) :
         SameTrial(i) /\ rows[i].loan_payment_7a > 0
           /\ rows[i].loan_balance_7a < rows[i - 1].loan_balance_7a
    /\ \E i \in 1..Len(rows) :
         SameTrial(i) /\ rows[i].loan_tranche_draw_capex > 0
           /\ rows[i].loan_balance_504 > rows[i - 1].loan_balance_504

\* the rows of the trial in progress: its months so far
TrialRows == {k \in 1..Len(rows) : k > Len(rows) - month}

\* the month trigger or the member-count trigger of a configured item holds in
\* the month of row r
TriggeredIn(it, r) ==
    \/ it.month # None /\ r.month - 1 = it.month
    \/ it.member_threshold # None /\ r.active_members >= it.member_threshold

\* row k is the first row of the trial in which a trigger of the item holds
FirstTriggeredIn(it, k) ==
    /\ TriggeredIn(it, rows[k])
    /\ \A j \in TrialRows : j < k => ~TriggeredIn(it, rows[j])

\* C11: within a trial a queued capital item is purchased in the first month
\* in which its month trigger or its member-count trigger holds, its cost is
\* part of that month's capex draw and of no other month's, and nothing else
\* is ever purchased
C11_PurchasedOnceAtTrigger ==
    pc \in {"members", "finance"} =>
        LET q0 == BuildCapexQueue(conf)
        IN  /\ Len(trial.capex_queue) = Len(q0)
            /\ \A i \in 1..Len(q0) :
                 trial.capex_queue[i].purchased <=>
                     \E k \in TrialRows : TriggeredIn(q0[i], rows[k])
            /\ \A k \in TrialRows :
                 rows[k].capex_draw =
                     SumSeq([i \in 1..Len(q0) |->
                               IF FirstTriggeredIn(q0[i], k)
                               THEN q0[i].unit_cost * q0[i].count ELSE 0])

\* the scenario a row was produced under
RowScenario(r) ==
    LET S == conf.SCENARIO_CONFIGS
    IN  S[CHOOSE i \in 1..Len(S) : S[i].name = r.scenario]

\* the cash balance of a row before the grant of its month
CashBeforeGrant(r) == r.cash_balance - r.grant_received

\* C12: insolvent_before_grant is false when a trial starts; within a trial it
\* turns true only in a row whose cash balance before the month's grant is
\* negative and whose month is before the grant month (or the scenario has no
\* grant), and a row that follows a row with the flag has the flag
C12_InsolvencyLatch ==
    /\ (pc = "members" /\ month = 0) => ~trial.insolvent_before_grant
    /\ \A i \in 1..Len(rows) :
         /\ (rows[i].insolvent_before_grant
               /\ (SameTrial(i) => ~rows[i - 1].insolvent_before_grant))
              => /\ CashBeforeGrant(rows[i]) < 0
                 /\ \/ RowScenario(rows[i]).grant_month = None
                    \/ rows[i].month - 1 < RowScenario(rows[i]).grant_month
         /\ (SameTrial(i) /\ rows[i - 1].insolvent_before_grant)
              => rows[i].insolvent_before_grant

\* a trial whose flag was set in one month and is kept in a later month in
\* which the cash balance is not negative
C12_Witness ==
    \E i \in 1..Len(rows) :
        /\ SameTrial(i)
        /\ rows[i - 1].insolvent_before_grant /\ rows[i].insolvent_before_grant
        /\ CashBeforeGrant(rows[i]) >= 0

\* C13: for beta > 0 the capacity damping is in [0, 1], is 1 when there are no
\* active members, and is 0 when there is at least one active member and the
\* active members are at or above the soft cap
C13_DampingRange ==
    pf_pc = "damped" =>
        /\ 0 <= pf_out.num /\ pf_out.num <= pf_out.den /\ pf_out.den > 0
        /\ pf_in.n = 0 => pf_out.num = pf_out.den
        /\ (pf_in.n >= 1 /\ 100 * pf_in.n >= pf_in.soft_cap) => pf_out.num = 0

\* members at or above a soft cap of less than one member: the ratio is taken
\* over max(1, soft cap) and the damping is 0
C13_Witness ==
    /\ pf_pc = "damped"
    /\ pf_in.n >= 1 /\ 100 * pf_in.n >= pf_in.soft_cap /\ pf_in.soft_cap < 100
    /\ pf_out.num = 0

\* C13 as stated: the damping is 0 whenever the active members are at or
\* above the soft cap, a soft cap of 0 with no active member included
C13_DampingZeroAtSoftCap ==
    pf_pc = "damped" =>
        /\ 0 <= pf_out.num /\ pf_out.num <= pf_out.den
        /\ pf_in.n = 0 => pf_out.num = pf_out.den
        /\ 100 * pf_in.n >= pf_in.soft_cap => pf_out.num = 0

\* C14: the leave probability a member's uniform draw is compared with is in
\* [0, 0.99] for every tenure tier and every value of the downturn, price,
\* crowding and seasonal multipliers
C14_LeaveProbClipped == pf_pc = "clipped" => 0 <= pf_out /\ pf_out <= 9900

\* a member whose multiplied hazard is above 0.99 and is clipped to it
C14_Witness ==
    /\ pf_pc = "clipped"
    /\ p_leave_NoClip(pf_in.base, pf_in.tenure_mo, pf_in.churn_mult,
                      pf_in.price_mult_churn, pf_in.crowding, pf_in.month) > 9900
    /\ pf_out = 9900

\* C15: under a permanent downturn whose join multiplier is 0 the organic
\* joins, the baseline joins and the referral joins of every month are 0
C15_DownturnStopsPoolJoins ==
    (conf.DOWNTURN_PROB_PER_MONTH >= 100 /\ conf.DOWNTURN_JOIN_MULT = 0) =>
        /\ mo.organic_joins = 0
        /\ mo.baseline_joins = 0
        /\ mo.referral_joins = 0

\* a configuration without an external market: empty pools, no inflow, zero
\* base intent and baseline hazards, no workshops, classes or manual curve
NoMarket(c) ==
    /\ c.NO_ACCESS_POOL = 0 /\ c.HOME_POOL = 0 /\ c.COMMUNITY_POOL = 0
    /\ \A k \in DOMAIN c.MARKET_POOLS_INFLOW : c.MARKET_POOLS_INFLOW[k] = 0
    /\ \A k \in DOMAIN c.POOL_BASE_INTENT : c.POOL_BASE_INTENT[k] = 0
    /\ c.BASELINE_RATE_NO_ACCESS = 0 /\ c.BASELINE_RATE_HOME = 0
    /\ c.BASELINE_RATE_COMMUNITY = 0
    /\ ~c.WORKSHOPS_ENABLED /\ ~c.CLASSES_ENABLED /\ ~c.USE_MANUAL_MEMBERSHIP_CURVE

\* C16: without an external market nobody joins and nobody is a member, in
\* every month of every trial and in both join models
C16_NoMarketNoMembers ==
    NoMarket(conf) =>
        /\ mo.joins = 0 /\ Len(trial.active_members) = 0
        /\ \A i \in 1..Len(rows) : rows[i].joins = 0 /\ rows[i].active_members = 0

\* a month without a market in which the baseline trickle asked for joins and
\* found no prospect to take
C16_Witness ==
    /\ NoMarket(conf) /\ pc = "finance" /\ call = 1
    /\ tape_members[Len(tape_members)].raw_base > 0
    /\ mo.joins = 0 /\ mo.members_created = 0

\* the rows of a table that belong to one (rent, owner draw, scenario, trial,
\* month)
RowsOf(table, rent, draw, scen, s, m) ==
    {i \in 1..Len(table) :
       /\ table[i].rent = rent /\ table[i].owner_draw = draw /\ table[i].scenario = scen
       /\ table[i].simulation_id = s /\ table[i].month = m}

\* a table with exactly one row for every rent, owner draw, scenario, trial
\* and month 1..MONTHS, and no other row
CompleteTable(c, table) ==
    /\ Len(table) = Len(c.RENT_SCENARIOS) * Len(c.OWNER_DRAW_SCENARIOS)
                      * Len(c.SCENARIO_CONFIGS) * c.N_SIMULATIONS * c.MONTHS
    /\ \A ri \in 1..Len(c.RENT_SCENARIOS), oi \in 1..Len(c.OWNER_DRAW_SCENARIOS),
          si \in 1..Len(c.SCENARIO_CONFIGS), s \in 0..(c.N_SIMULATIONS - 1), m \in 1..c.MONTHS :
         Cardinality(RowsOf(table, c.RENT_SCENARIOS[ri], c.OWNER_DRAW_SCENARIOS[oi],
                            c.SCENARIO_CONFIGS[si].name, s, m)) = 1

\* C17: every table run_from_cfg returns is complete, a call that has
\* returned has returned one table, and a call that raised has returned none
C17_CompleteTableOrRaise ==
    /\ \A k \in 1..Len(results) : CompleteTable(conf, results[k])
    /\ pc = "done" => Len(results) = call
    /\ pc = "raised" => Len(results) = call - 1

\* an exception in a later month of a trial: rows of its earlier months had
\* been collected, and no table was returned
C17_Witness ==
    /\ pc = "raised" /\ month >= 1
    /\ rows # << >> /\ ~CompleteTable(conf, rows)
    /\ results = << >>

\* C18: what the onboarding-cap rollback returns to a pool is between 0 and
\* what the month took from that pool (organic, baseline and referral joins
\* together), and no per-source join count is negative after it
C18_RollbackWithinTakes ==
    /\ 0 <= mo.rb_no_access /\ mo.rb_no_access <= mo.take_no_access_total
    /\ 0 <= mo.rb_home /\ mo.rb_home <= mo.take_home_total
    /\ 0 <= mo.rb_cs /\ mo.rb_cs <= mo.take_cs_total
    /\ \A k \in DOMAIN mo.sources : mo.sources[k] >= 0

\* C19: when the candidate joins of a month exceed MAX_ONBOARDINGS_PER_MONTH,
\* the joins after the rollback (before the hard ceiling) are exactly the cap
C19_RollbackExact ==
    (conf.MAX_ONBOARDINGS_PER_MONTH # None
       /\ mo.candidate_joins > conf.MAX_ONBOARDINGS_PER_MONTH)
      => mo.capped_joins = conf.MAX_ONBOARDINGS_PER_MONTH

\* the capital loan is staged, finances the whole purchase and has neither a
\* minimum nor a maximum tranche
PlainStagedCapex(c) ==
    /\ c.CAPEX_LOAN_MODE = "staged"
    /\ c.LOAN_STAGED_RULE.draw_pct_of_purchase = 100
    /\ c.LOAN_STAGED_RULE.min_tranche = 0
    /\ c.LOAN_STAGED_RULE.max_tranche = None

\* row i holds the first tranche of the capital loan in its trial
FirstTranche(i) ==
    /\ rows[i].loan_tranche_draw_capex > 0
    /\ \A j \in 1..(i - 1) :
         (rows[j].month < rows[i].month /\ i - j = rows[i].month - rows[j].month)
           => rows[j].loan_tranche_draw_capex = 0

\* C20: with a plain staged capital loan the tranche of every month is the
\* cost of the items purchased in that month (none without a purchase), and
\* the repayment of a tranche starts in the month after it
C20_TrancheMatchesPurchase ==
    PlainStagedCapex(conf) =>
        \A i \in 1..Len(rows) :
            /\ rows[i].loan_tranche_draw_capex = rows[i].capex_draw
            /\ FirstTranche(i) =>
                 /\ rows[i].loan_payment_504 = 0
                 /\ (i < Len(rows) /\ rows[i + 1].month = rows[i].month + 1)
                      => rows[i + 1].loan_payment_504 > 0

\* the last row is the row of a month in which the sales tax is remitted
SalesTaxRemitMonth ==
    /\ Len(rows) > 0
    /\ rows[Len(rows)].month % conf.SALES_TAX_REMIT_FREQUENCY_MONTHS = 0

\* C21: the sales tax collected is paid out of cash in the remittance months:
\* at the end of a remittance month the sales tax has added nothing to the
\* cash balance of the trial
C21_SalesTaxNetZero == SalesTaxRemitMonth => fin.sales_tax_cash = 0

\* the self-employment, state income and corporate tax accrued in the month
\* of row r, and the cash paid for them in that month
IncomeTaxAccrued(r) == r.se_tax_accrued + r.state_income_tax_accrued + r.corp_tax_accrued
IncomeTaxPaid(r) == r.tax_payments_made - r.sales_tax_remitted

\* the income taxes accrued and not yet remitted in the trial
IncomeTaxPayable(t) ==
    t.se_tax_payable_accum + t.state_tax_payable_accum + t.corp_tax_payable_accum

\* C22: within a trial the income taxes accrued so far are the income taxes
\* remitted so far plus the payable accumulators; cash is paid for them only
\* in a month whose number is a multiple of
\* ESTIMATED_TAX_REMIT_FREQUENCY_MONTHS, and after such a month the
\* accumulators are 0
C22_IncomeTaxAccrueThenRemit ==
    pc \in {"members", "finance"} =>
        /\ SumFn([k \in TrialRows |-> IncomeTaxAccrued(rows[k])], TrialRows)
             = SumFn([k \in TrialRows |-> IncomeTaxPaid(rows[k])], TrialRows)
                 + IncomeTaxPayable(trial)
        /\ \A k \in TrialRows :
             IncomeTaxPaid(rows[k]) # 0
               => rows[k].month % conf.ESTIMATED_TAX_REMIT_FREQUENCY_MONTHS = 0
        /\ (month > 0 /\ month % conf.ESTIMATED_TAX_REMIT_FREQUENCY_MONTHS = 0)
             => /\ trial.se_tax_payable_accum = 0
                /\ trial.state_tax_payable_accum = 0
                /\ trial.corp_tax_payable_accum = 0

\* a trial that accrued self-employment and state income tax in a month
\* without a remittance and remitted them, with those of the month, in the
\* next
C22_Witness ==
    /\ pc \in {"members", "finance"}
    /\ \E j, k \in TrialRows :
         /\ j < k
         /\ rows[j].se_tax_accrued > 0 /\ rows[j].state_income_tax_accrued > 0
         /\ IncomeTaxPaid(rows[j]) = 0
         /\ IncomeTaxPaid(rows[k]) > IncomeTaxAccrued(rows[k])

\* the self-employment earnings of the month a finance step closes: the
\* operating profit it adds to the trial's cumulative profit, floored at 0,
\* times SE_EARNINGS_FACTOR
MonthSeEarnings ==
    Bp(Max(0, trial'.cumulative_op_profit - trial.cumulative_op_profit), conf.SE_EARNINGS_FACTOR)

\* the finance step of a sole proprietor or partnership adds
\* min(month earnings, base remaining) to the year-to-date counter
WageBaseStep ==
    (pc = "finance" /\ pc' # "raised"
       /\ conf.ENTITY_TYPE \in {"sole_prop", "partnership"})
      => trial'.se_ss_wage_base_used_ytd
           = trial.se_ss_wage_base_used_ytd
               + Min(MonthSeEarnings,
                     conf.SE_SOC_SEC_WAGE_BASE - trial.se_ss_wage_base_used_ytd)

\* the year-to-date counter is within [0, SE_SOC_SEC_WAGE_BASE], and is 0
\* when the accrual of a month with an index divisible by 12 begins
WageBaseRange ==
    /\ 0 <= trial.se_ss_wage_base_used_ytd
    /\ (pc \in {"members", "finance"} /\ cfg # "none")
         => trial.se_ss_wage_base_used_ytd <= conf.SE_SOC_SEC_WAGE_BASE
    /\ (pc = "finance" /\ month % 12 = 0) => trial.se_ss_wage_base_used_ytd = 0

\* C23: the earnings subjected to the Social-Security part of the
\* self-employment tax since the last month with an index divisible by 12
\* never exceed SE_SOC_SEC_WAGE_BASE: the counter is reset in those months,
\* grows by min(month earnings, base remaining) and stays in
\* [0, SE_SOC_SEC_WAGE_BASE]
C23_WageBaseCap == [](WageBaseRange) /\ [][WageBaseStep]_vars

\* the cap was reached in the first year (a month added less than its
\* earnings) and, after the reset of month 12, earnings are subjected again
C23_Witness ==
    /\ cfg = "WageBase" /\ month = 12 /\ pc \in {"return", "done"}
    /\ trial.se_ss_wage_base_used_ytd > 0
    /\ trial.se_ss_wage_base_used_ytd < conf.SE_SOC_SEC_WAGE_BASE
    /\ \E k \in 1..Len(rows) : rows[k].month = 5 /\ rows[k].se_tax_accrued > 0
                                 /\ rows[k].se_tax_accrued < rows[1].se_tax_accrued

\* the longest stay of a member, in months (module constant, line 574)
MAX_STAY == 48

\* C24: after the churn of a month no active member has a tenure (current
\* month minus join month) of more than MAX_STAY months
C24_MaxStay ==
    pc = "finance" =>
        \A i \in 1..Len(trial.active_members) :
            month - trial.active_members[i].start_month <= MAX_STAY

\* the prospects removed from the three pools for the referrals of the month
ReferralsTaken(m) == m.sources.ref_no_access + m.sources.ref_cs + m.sources.ref_home

\* C25: the referral joins counted in the month's joins are the prospects
\* removed from the pools for referrals
C25_ReferralsMatchPools ==
    DOMAIN mo.sources # {} => mo.referral_joins = ReferralsTaken(mo)

\* a configured item whose only trigger is a month within the horizon
MonthOnlyItem(it) ==
    it.month # None /\ it.member_threshold = None /\ 0 <= it.month /\ it.month < conf.MONTHS

\* C26: an item whose only trigger is the month m is purchased in month m:
\* when months 0..month-1 of a trial have run, it is purchased exactly if
\* m < month
C26_BoughtInItsMonth ==
    pc \in {"members", "finance"} =>
        LET q0 == BuildCapexQueue(conf)
        IN  \A i \in 1..Len(q0) :
                MonthOnlyItem(q0[i])
                  => (trial.capex_queue[i].purchased <=> q0[i].month < month)

\* the active members of the row before row i in its trial (0 before the
\* first month)
ActiveBefore(i) == IF SameTrial(i) THEN rows[i - 1].active_members ELSE 0

\* C27: the joins of a row are non-negative, the joins of the month in
\* progress are the members its join realization created, and in every row
\* active_members is the previous row's plus net_adds, with net_adds = joins
\* + manual additions - departures
C27_RowMatchesMembership ==
    /\ \A i \in 1..Len(rows) :
         /\ rows[i].joins >= 0
         /\ rows[i].active_members = ActiveBefore(i) + rows[i].net_adds
    /\ pc = "finance"
         => /\ mo.joins = mo.members_created
            /\ mo.net_adds = (mo.joins + mo.manual_added) - mo.departures

\* C28: _tranche_from_schedule returns for every input: the set-up of a
\* trial never stays in its bucket loop
C28_TrancheScheduleReturns == pc # "hang"

\* the payments of one tranche of the primary loan drawn in month d, on its
\* own schedule
OwnPayments(principal, d) ==
    add_staged_tranche_into_array(Zeros(conf.MONTHS), d, principal, conf.LOAN_504_ANNUAL_RATE,
                                  conf.LOAN_504_TERM_YEARS, conf.IO_MONTHS_504, conf.MONTHS)

\* the balance after month m of a tranche drawn in month d and amortized
\* alone by the payments pay
RECURSIVE OwnBalance(_, _, _, _)
OwnBalance(pay, principal, d, m) ==
    IF m < d THEN 0
    ELSE IF m = d THEN principal
    ELSE BalanceStep(OwnBalance(pay, principal, d, m - 1), 0, pay[m], conf.LOAN_504_ANNUAL_RATE)

\* row j belongs to the trial of row i and is not later than it
EarlierInTrial(j, i) ==
    j <= i /\ rows[j].month <= rows[i].month /\ i - j = rows[i].month - rows[j].month

\* the balances after the month of row i of the tranches of its trial, each
\* amortized alone
SumOfTrancheBalances(i) ==
    SumFn([j \in 1..i |->
             IF EarlierInTrial(j, i) /\ rows[j].loan_tranche_draw_capex > 0
             THEN OwnBalance(OwnPayments(rows[j].loan_tranche_draw_capex, rows[j].month - 1),
                             rows[j].loan_tranche_draw_capex, rows[j].month - 1, rows[i].month - 1)
             ELSE 0], 1..i)

\* the months of the trial of row i, up to row i, in which a tranche was drawn
TrancheMonths(i) ==
    {rows[j].month - 1 : j \in {k \in 1..i : EarlierInTrial(k, i) /\ rows[k].loan_tranche_draw_capex > 0}}

\* whole-dollar rounding of the interest: one dollar per month and tranche
RoundingAllowance(i) == rows[i].month * Cardinality(TrancheMonths(i))

\* C29: with a staged capital loan at a positive rate and tranches in two or
\* more months, the reported balance of the primary loan is in every month
\* the sum of the balances of the tranches, each amortized on its own
\* schedule (to the rounding of the interest)
C29_BalanceIsSumOfTranches ==
    (PlainStagedCapex(conf) /\ conf.LOAN_504_ANNUAL_RATE > 0) =>
        \A i \in 1..Len(rows) :
            Cardinality(TrancheMonths(i)) >= 2 =>
                /\ rows[i].loan_balance_504 - SumOfTrancheBalances(i) <= RoundingAllowance(i)
                /\ SumOfTrancheBalances(i) - rows[i].loan_balance_504 <= RoundingAllowance(i)

(***************************************************************************)
\* the soft cap of the configured station capacities
ConfiguredSoftCap == compute_membership_soft_cap(conf, merged.STATIONS)

\* the members active at the start of the month in progress
ActiveAtMonthStart == IF month = 0 THEN 0 ELSE rows[Len(rows)].active_members

\* C30: in every month of every trial the soft cap that the capacity damping
\* reads is the one of the configured station capacities, whatever capital
\* purchases have done to the stations: a month that starts at or above that
\* cap has no pool joins and no baseline joins
C30_SoftCapFixed ==
    pc \in {"members", "finance"} =>
        /\ SoftCapOfMonth(MEMBERSHIP_SOFT_CAP, G.STATIONS) = ConfiguredSoftCap
        /\ (pc = "finance"
              /\ CapacityDampingIsZero(conf, ActiveAtMonthStart, ConfiguredSoftCap))
            => mo.organic_joins = 0 /\ mo.baseline_joins = 0

\* a later month after a slab roller has raised the handbuilding capacity:
\* the month starts above the configured soft cap and below the soft cap of
\* the stations as they now are, with a prospect still in the pool
C30_Witness ==
    /\ pc = "finance" /\ month >= 1
    /\ G.STATIONS.handbuilding.capacity > merged.STATIONS.handbuilding.capacity
    /\ CapacityDampingIsZero(conf, ActiveAtMonthStart, MEMBERSHIP_SOFT_CAP)
    /\ ~CapacityDampingIsZero(conf, ActiveAtMonthStart,
                              compute_membership_soft_cap(conf, G.STATIONS))
    /\ trial.remaining_pool.no_access > 0
    /\ mo.joins = 0

(* Claims about the loan scheduler.                                        *)
(***************************************************************************)
\* C8: for principal > 0 build_loan_schedule returns exactly total_months
\* payments; with io = min(max(io_months, 0), term_years*12) every month
\* m < io holds the interest-only payment principal*annual_rate/12, every
\* month io <= m < term_years*12 holds one and the same amortizing payment
\* (the annuity over the term_years*12 - io remaining months, which is
\* principal/(term_years*12 - io) when annual_rate is 0), and every month
\* m >= term_years*12 holds 0.
C8_ScheduleShape ==
    (ls_pc \in {"built", "added"} /\ ls_args.principal > 0) =>
      LET a == ls_args
          term_m == a.term_years * 12
          io == Min(Max(a.io_months, 0), term_m)
      IN  /\ DOMAIN ls_sched = 0..(a.total_months - 1)
          /\ \A m \in DOMAIN ls_sched :
               /\ (m < io) => ls_sched[m] = (a.principal * a.annual_rate) \div BpPerMonthDen
               /\ (io <= m /\ m < term_m) =>
                     /\ ls_sched[m] = ls_sched[io]
                     /\ ls_sched[m] = IF a.annual_rate = 0
                                      THEN a.principal \div (term_m - io)
                                      ELSE Annuity(a.principal, a.annual_rate, term_m - io)
               /\ (m >= term_m) => ls_sched[m] = 0

\* C8 witness: a schedule with all three phases (interest-only months, level
\* amortizing months, months after maturity) at a positive rate
C8_Witness ==
    /\ ls_pc = "built"
    /\ ls_args.principal > 0
    /\ ls_args.annual_rate > 0
    /\ ls_args.io_months = 3
    /\ ls_args.term_years = 1
    /\ ls_args.total_months > 12
    /\ ls_sched[0] > 0
    /\ ls_sched[3] > ls_sched[0]
    /\ ls_sched[11] = ls_sched[3]
    /\ ls_sched[12] = 0

\* C9: _add_staged_tranche_into_array for a draw in month d leaves arr[0..d]
\* unchanged and adds the k-th payment of the tranche's own schedule to
\* arr[d+1+k] for every k with d+1+k < total_months; with principal <= 0 the
\* array is unchanged.
C9_TrancheShift ==
    (ls_pc = "added") =>
      LET d == ls_args.start_month
      IN  /\ DOMAIN ls_arr = DOMAIN ls_arr0
          /\ (ls_args.principal <= 0) => ls_arr = ls_arr0
          /\ (ls_args.principal > 0) =>
               \A m \in DOMAIN ls_arr :
                 /\ (m <= d) => ls_arr[m] = ls_arr0[m]
                 /\ (m > d) => ls_arr[m] = ls_arr0[m] + ls_sched[m - d - 1]

\* C9 witness: a tranche with positive payments added into a non-zero array,
\* the draw month keeping its old value and the next month getting the
\* tranche's first payment
C9_Witness ==
    /\ ls_pc = "added"
    /\ ls_args.principal > 0
    /\ ls_args.start_month = 1
    /\ ls_args.total_months > 3
    /\ ls_sched[0] > 0
    /\ ls_arr0[1] > 0
    /\ ls_arr[1] = ls_arr0[1]
    /\ ls_arr[2] = ls_arr0[2] + ls_sched[0]

(***************************************************************************)
(* Claims about the configuration resolver.                                *)
(***************************************************************************)
\* an override that supplies a non-mapping value for a key whose default is
\* a mapping
BadOverride(k) ==
    /\ k \in DOMAIN rc_user
    /\ k \in DOMAIN get_default_cfg
    /\ isinstance_dict(get_default_cfg[k])
    /\ ~isinstance_dict(rc_user[k])

\* C10: for any configuration key whose default value is a mapping, when the
\* override supplies a non-mapping scalar for that key, resolve_cfg returns
\* the default mapping for that key, while every other override is applied.
C10_ScalarOverrideDiscarded ==
    (rc_pc = "resolved") =>
      /\ \A k \in DOMAIN rc_user :
           BadOverride(k) => rc_merged[k] = get_default_cfg[k]
      /\ \A k \in DOMAIN rc_user :
           ~BadOverride(k) => rc_merged[k] = rc_user[k]

=============================================================================
